---------------------------- MODULE Spec2Model ----------------------------
(***************************************************************************)
(* A model of bossphorus: the cuboid decomposition (data_manager.rs), the  *)
(* chunked file data manager with its next layer, the usage pipeline       *)
(* (usage_tracker.rs) and the SQLite-backed cache manager (db.rs).         *)
(***************************************************************************)
EXTENDS Integers, Sequences, FiniteSets, TLC

VARIABLES
    args,       \* the inputs of a pure function applied on its own
    ret,        \* its result
    files,      \* the block store: path of each existing file -> its bytes
    req,        \* each request thread's call in progress
    prev,       \* each request thread's previous, finished call
    connected,  \* whether the next layer (the upstream) answers
    nreq,       \* requests started so far
    track_usage,    \* the data manager's track_usage flag
    hist,           \* where blocks came from: cuboids fetched, cuboids written
    chan,           \* the usage channel: keys sent and not yet received
    rows,           \* the cuboids table
    num_cuboids,    \* MaxCountLruStrategy's counter
    now,            \* the clock the metadata store reads
    remove_calls,   \* the paths handed to the file remover, in call order
    logged,         \* the keys the consumer has processed, in order
    remove_failed,  \* whether a file removal has failed so far
    cache_roots,    \* the cache_roots table
    th,             \* the two concurrent request threads, step by step
    ut              \* usage_tracker: SENDER_MUTEX, consumer threads, calls of run

fnVars == <<args, ret>>
dmVars == <<files, req, prev, connected, nreq, track_usage, hist>>
cmVars == <<chan, rows, num_cuboids, now, remove_calls, logged, remove_failed, cache_roots>>
thVars == <<th>>
utVars == <<ut>>
vars == <<args, ret, files, req, prev, connected, nreq, track_usage, hist,
          chan, rows, num_cuboids, now, remove_calls, logged, remove_failed,
          cache_roots, th, ut>>

(***************************************************************************)
(* Vector3 and the coordinate decomposer                                   *)
(***************************************************************************)

\* bounds of the decomposer's inputs
MaxCoord == 3
MaxSize == 2

Vector3(x, y, z) == [x |-> x, y |-> y, z |-> z]

LeqV(a, b) == a.x <= b.x /\ a.y <= b.y /\ a.z <= b.z

\* a decomposer that counts a coordinate on a block boundary to the block
\* below it
cuboid_of_below(coord, size) ==
    IF coord > 0 /\ coord % size = 0 THEN coord \div size - 1 ELSE coord \div size

\* per axis: the cuboid holding a coordinate (u64 division)
cuboid_of(coord, size) == coord \div size

\* a decomposer that starts every cuboid at the request's offset
start_coord_offset(coord_start, size, index) == coord_start % size

\* per axis: where the cutout starts inside cuboid `index`
start_coord(coord_start, size, index) ==
    IF coord_start <= size * index THEN 0 ELSE coord_start % size

\* a decomposer that drops the boundary test's equality
stop_coord_strict(coord_stop, size, index) ==
    IF coord_stop > size * (1 + index) THEN size ELSE coord_stop % size

\* per axis: where the cutout stops inside cuboid `index`
stop_coord(coord_stop, size, index) ==
    IF coord_stop >= size * (1 + index) THEN size ELSE coord_stop % size

get_cuboids_and_indices(coords_start, coords_stop, cuboid_size) ==
    LET start_cuboid == Vector3(cuboid_of(coords_start.x, cuboid_size.x),
                                cuboid_of(coords_start.y, cuboid_size.y),
                                cuboid_of(coords_start.z, cuboid_size.z))
        stop_cuboid == Vector3(cuboid_of(coords_stop.x, cuboid_size.x),
                               cuboid_of(coords_stop.y, cuboid_size.y),
                               cuboid_of(coords_stop.z, cuboid_size.z))
        keys == { Vector3(i, j, k) : i \in start_cuboid.x .. stop_cuboid.x,
                                     j \in start_cuboid.y .. stop_cuboid.y,
                                     k \in start_cuboid.z .. stop_cuboid.z }
    IN  [ c \in keys |->
            << Vector3(start_coord(coords_start.x, cuboid_size.x, c.x),
                       start_coord(coords_start.y, cuboid_size.y, c.y),
                       start_coord(coords_start.z, cuboid_size.z, c.z)),
               Vector3(stop_coord(coords_stop.x, cuboid_size.x, c.x),
                       stop_coord(coords_stop.y, cuboid_size.y, c.y),
                       stop_coord(coords_stop.z, cuboid_size.z, c.z)) >> ]

(***************************************************************************)
(* ndarray::Array3<u8>: a shape <<dz, dy, dx>> and the raw vector in       *)
(* standard (Z-major) layout, as Array::from_shape_vec and into_raw_vec    *)
(* see it.                                                                 *)
(***************************************************************************)

Prod(shape) == shape[1] * shape[2] * shape[3]

\* position <<z, y, x>> of the n-th (0-based) element of the raw vector
Unflat(n, shape) ==
    << n \div (shape[2] * shape[3]), (n \div shape[3]) % shape[2], n % shape[3] >>

\* 0-based offset of position <<z, y, x>> in the raw vector
Flat(p, shape) == (p[1] * shape[2] + p[2]) * shape[3] + p[3]

ArrayOf(shape, F(_)) ==
    [shape |-> shape, raw |-> [n \in 1 .. Prod(shape) |-> F(Unflat(n - 1, shape))]]

zeros(shape) == [shape |-> shape, raw |-> [n \in 1 .. Prod(shape) |-> 0]]

At(a, p) == a.raw[Flat(p, a.shape) + 1]

\* Array::from_shape_vec: an error unless the vector has the shape's length
from_shape_vec(shape, data) ==
    [ok |-> Len(data) = Prod(shape), array |-> [shape |-> shape, raw |-> data]]

into_raw_vec(a) == a.raw

\* s![lo..hi] is inside the array (ndarray panics otherwise)
SliceOk(a, lo, hi) ==
    \A i \in 1 .. 3 : lo[i] <= hi[i] /\ hi[i] <= a.shape[i]

\* array.slice(s![lo[1]..hi[1], lo[2]..hi[2], lo[3]..hi[3]])
slice(a, lo, hi) ==
    LET shape == << hi[1] - lo[1], hi[2] - lo[2], hi[3] - lo[3] >>
    IN  [shape |-> shape,
         raw |-> [n \in 1 .. Prod(shape) |->
                    LET p == Unflat(n - 1, shape)
                    IN  At(a, << lo[1] + p[1], lo[2] + p[2], lo[3] + p[3] >>)]]

\* array.slice_mut(s![lo..hi]).assign(&b), for b of the slice's shape
slice_assign(a, lo, hi, b) ==
    [shape |-> a.shape,
     raw |-> [n \in 1 .. Prod(a.shape) |->
                LET p == Unflat(n - 1, a.shape)
                IN  IF \A i \in 1 .. 3 : lo[i] <= p[i] /\ p[i] < hi[i]
                    THEN At(b, << p[1] - lo[1], p[2] - lo[2], p[3] - lo[3] >>)
                    ELSE a.raw[n]]]

AssignOk(a, lo, hi, b) ==
    /\ SliceOk(a, lo, hi)
    /\ b.shape = << hi[1] - lo[1], hi[2] - lo[2], hi[3] - lo[3] >>

\* a Vector3 in the order of the array axes
ZYX(v) == << v.z, v.y, v.x >>

(***************************************************************************)
(* The data managers                                                       *)
(***************************************************************************)

\* bounds of the request windows: coordinates 0..MaxX, 0..MaxY, 0..MaxZ
MaxX == 3
MaxY == 1
MaxZ == 1
\* requests started in one behaviour
MaxReqs == 2
\* distinct buffer contents a client uploads
NumPatterns == 1

\* the cuboid size the data manager is built with (scaled down)
cuboid_size == Vector3(2, 3, 4)

CUBOID_ROOT_PATH == << "uploads" >>
Uri == << "bossdb", "col/exp/chan" >>
Res == 0

\* the voxel of the upstream volume at a global coordinate
U(x, y, z) == 1 + ((x + 2 * y + 3 * z) % 5)

\* a client buffer's voxel: pattern p at a global coordinate
Pattern(p, x, y, z) == 6 + ((p + 2 * x + y + 3 * z) % 5)

\* the next layer (BossDBRelayDataManager over BossRemote::get_cutout)
relay_get_data(origin, destination) ==
    ArrayOf(<< destination.z - origin.z, destination.y - origin.y,
               destination.x - origin.x >>,
            LAMBDA p : U(origin.x + p[3], origin.y + p[2], origin.z + p[1]))

ClientBuffer(p, origin, destination) ==
    ArrayOf(<< destination.z - origin.z, destination.y - origin.y,
               destination.x - origin.x >>,
            LAMBDA q : Pattern(p, origin.x + q[3], origin.y + q[2], origin.z + q[1]))

\* Vector3's Display: "x{}_y{}_z{}"
Display(v) == << "x", v.x, "_y", v.y, "_z", v.z >>

\* format!("{}/{}/{}/{}", self.file_path, boss_uri[1], res, cuboid_index)
filename(file_path, uri, res, cuboid_index) ==
    file_path \o << "/", uri[2], "/", res, "/" >> \o Display(cuboid_index)

BlockFile(c) == filename(CUBOID_ROOT_PATH, Uri, Res, c)

BlockShape == ZYX(cuboid_size)

\* a cutout that forgets the request origin
cutout_range_no_origin(c, rng, origin) ==
    << << c.z * cuboid_size.z + rng[1].z, c.y * cuboid_size.y + rng[1].y,
          c.x * cuboid_size.x + rng[1].x >>,
       << c.z * cuboid_size.z + rng[2].z, c.y * cuboid_size.y + rng[2].y,
          c.x * cuboid_size.x + rng[2].x >> >>

\* the coordinates of this cuboid's part inside the cutout volume:
\* <<z_start, y_start, x_start>>, <<z_stop, y_stop, x_stop>>
cutout_range(c, rng, origin) ==
    << << (c.z * cuboid_size.z + rng[1].z) - origin.z,
          (c.y * cuboid_size.y + rng[1].y) - origin.y,
          (c.x * cuboid_size.x + rng[1].x) - origin.x >>,
       << (c.z * cuboid_size.z + rng[2].z) - origin.z,
          (c.y * cuboid_size.y + rng[2].y) - origin.y,
          (c.x * cuboid_size.x + rng[2].x) - origin.x >> >>

cuboid_start(c) ==
    Vector3(c.x * cuboid_size.x, c.y * cuboid_size.y, c.z * cuboid_size.z)

\* a miss expansion that uses the x size on every axis
cuboid_stop_cubic(c) ==
    Vector3((1 + c.x) * cuboid_size.x, (1 + c.y) * cuboid_size.x,
            (1 + c.z) * cuboid_size.x)

\* get_data's miss: x_cuboid_stop, y_cuboid_stop, z_cuboid_stop
cuboid_stop(c) ==
    Vector3((1 + c.x) * cuboid_size.x, (1 + c.y) * cuboid_size.y,
            (1 + c.z) * cuboid_size.z)

\* put_data's "existing data" test
has_block(fs, f) == f \in DOMAIN fs /\ Len(fs[f]) > 0

\* "Write cuboid to the array": the bytes of cuboid c's block with the
\* buffer's part assigned into array
put_bytes(array, c, rng, origin, data) ==
    LET cr == cutout_range(c, rng, origin)
    IN  into_raw_vec(slice_assign(array, ZYX(rng[1]), ZYX(rng[2]),
                                  slice(data, cr[1], cr[2])))

\* one iteration of put_data's loop: the bytes written to cuboid c's file
put_block(fs, c, rng, origin, data) ==
    LET f == BlockFile(c)
        array == IF has_block(fs, f)
                 THEN from_shape_vec(BlockShape, fs[f]).array
                 ELSE zeros(BlockShape)
    IN  put_bytes(array, c, rng, origin, data)

\* the window put_data writes: origin + the buffer's lengths
PutWindowStop(origin, data) ==
    Vector3(origin.x + data.shape[3], origin.y + data.shape[2],
            origin.z + data.shape[1])

\* the block store with bytes as the content of file f
write_file(fs, f, bytes) ==
    [g \in DOMAIN fs \cup {f} |-> IF g = f THEN bytes ELSE fs[g]]

\* put_data reads a block that is not a whole block: from_shape_vec fails
PutPanics(fs, origin, data) ==
    LET stop == Vector3(origin.x + data.shape[3], origin.y + data.shape[2],
                        origin.z + data.shape[1])
        cuboids == get_cuboids_and_indices(origin, stop, cuboid_size)
    IN  \E c \in DOMAIN cuboids :
          /\ has_block(fs, BlockFile(c))
          /\ ~from_shape_vec(BlockShape, fs[BlockFile(c)]).ok

\* ChunkedFileDataManager::put_data: the block store after the whole loop
\* (each iteration writes its own file, so the iteration order is immaterial)
put_data(fs, origin, data) ==
    LET stop == Vector3(origin.x + data.shape[3], origin.y + data.shape[2],
                        origin.z + data.shape[1])
        cuboids == get_cuboids_and_indices(origin, stop, cuboid_size)
        written == { BlockFile(c) : c \in DOMAIN cuboids }
        index_of(f) == CHOOSE c \in DOMAIN cuboids : BlockFile(c) = f
    IN  [ f \in DOMAIN fs \cup written |->
            IF f \in written
            THEN put_block(fs, index_of(f), cuboids[index_of(f)], origin, data)
            ELSE fs[f] ]

\* a read path that does not store what it fetched
write_back_skipped(fs, c, array) == fs

\* get_data's miss: "Put this cuboid into storage for next time"
write_back(fs, c, array) == put_data(fs, cuboid_start(c), array)

(***************************************************************************)
(* Requests.  A request thread runs one get_data or put_data at a time;   *)
(* get_data's loop over the decomposition map takes its entries in any    *)
(* order (HashMap iteration), one entry per step.                         *)
(***************************************************************************)

XCoords == 0 .. MaxX
YCoords == 0 .. MaxY
ZCoords == 0 .. MaxZ

Points == [x : XCoords, y : YCoords, z : ZCoords]

\* the request windows: origin <= destination componentwise
Windows == { w \in Points \X Points : LeqV(w[1], w[2]) }

NoArray == zeros(<< 0, 0, 0 >>)
Origin0 == Vector3(0, 0, 0)

\* no block fetched from the next layer, none written by a client
NoHist == [filled |-> {}, written |-> {}]

\* the cuboids of a decomposition that hold a voxel of the window
Touched(cuboids) ==
    { c \in DOMAIN cuboids :
        /\ cuboids[c][1].x < cuboids[c][2].x
        /\ cuboids[c][1].y < cuboids[c][2].y
        /\ cuboids[c][1].z < cuboids[c][2].z }

IdleReq ==
    [op |-> "none", status |-> "idle", origin |-> Origin0,
     destination |-> Origin0, data |-> NoArray, cuboids |-> <<>>,
     pending |-> {}, sent |-> {}, large_array |-> NoArray, fetches |-> 0]

Finished(r) == r.status \in {"idle", "done", "panic"}

\* what is kept of a finished call
Summary(r) ==
    [op |-> r.op, status |-> r.status, origin |-> r.origin,
     destination |-> r.destination, data |-> r.data,
     result |-> r.large_array, fetches |-> r.fetches]

\* usage_tracker.rs: the tracker kinds
UsageTrackerType == { "None", "Console", "Sqlite" }

\* calls of usage_tracker::run the model follows
MaxRuns == 2
Calls == 1 .. MaxRuns

NoCall == [pc |-> "idle", kind |-> "None"]

\* the module before any call of run.  SENDER_MUTEX is 0 for None and c for
\* Some(Mutex(tx)) with tx the sender of the channel that call c created;
\* spawned holds the calls whose consumer thread was spawned, gone those whose
\* consumer thread has ended (its receiver dropped); order lists the calls as
\* they were entered.
NoPipe ==
    [SENDER_MUTEX |-> 0, spawned |-> {}, gone |-> {},
     calls |-> [c \in Calls |-> NoCall], order |-> << >>]

\* the module after one call run(kind) that returned, kind not None
Started(kind) ==
    [SENDER_MUTEX |-> 1, spawned |-> {1}, gone |-> {},
     calls |-> [c \in Calls |->
                  IF c = 1 THEN [pc |-> "done", kind |-> kind] ELSE NoCall],
     order |-> << 1 >>]

UtIdle == ut = NoPipe

\* get_sender: panics while SENDER_MUTEX is None
get_sender_panics(u) == u.SENDER_MUTEX = 0

\* tx.send(key).is_ok(): the receiver of the installed sender's channel exists
send_is_ok(u) == u.SENDER_MUTEX \notin u.gone

\* a get_data that unwraps the result of send
after_send_unwrap(ok) == IF ok THEN "run" ELSE "panic"

\* get_data after tx.send: the result is tested and nothing is done with it
after_send(ok) == "run"

\* get_data up to its loop: the decomposition and the zeroed output array
GetStart(t, origin, destination) ==
    /\ Finished(req[t])
    /\ nreq < MaxReqs
    /\ nreq' = nreq + 1
    /\ prev' = [prev EXCEPT ![t] = Summary(req[t])]
    /\ LET cuboids == get_cuboids_and_indices(origin, destination, cuboid_size)
       IN  req' = [req EXCEPT ![t] =
                     [op |-> "get", status |-> "run", origin |-> origin,
                      destination |-> destination, data |-> NoArray,
                      cuboids |-> cuboids, pending |-> DOMAIN cuboids,
                      sent |-> {},
                      large_array |-> zeros(<< destination.z - origin.z,
                                               destination.y - origin.y,
                                               destination.x - origin.x >>),
                      fetches |-> 0]]
    /\ UNCHANGED <<files, connected, track_usage, hist>>

\* a call that panicked
Panicked(r) == [r EXCEPT !.status = "panic", !.pending = {}, !.sent = {}]

\* with track_usage, an iteration first sends the block's key to the usage
\* tracker
GetSend(t) ==
    /\ track_usage
    /\ req[t].op = "get" /\ req[t].status = "run"
    /\ req[t].sent = {}
    /\ \E c \in req[t].pending :
         IF get_sender_panics(ut)
         THEN /\ req' = [req EXCEPT ![t] = Panicked(req[t])]
              /\ chan' = chan
         ELSE /\ chan' = IF send_is_ok(ut) THEN Append(chan, BlockFile(c))
                                           ELSE chan
              /\ req' = IF after_send(send_is_ok(ut)) = "run"
                         THEN [req EXCEPT ![t].sent = {c}]
                         ELSE [req EXCEPT ![t] = Panicked(req[t])]
    /\ UNCHANGED <<files, prev, connected, nreq, track_usage, hist>>

\* a loop that takes a cuboid without sending its key first
Iter_unsent(t) == req[t].pending

\* the cuboids the loop may take next
Iter(t) == IF track_usage THEN req[t].sent ELSE req[t].pending

\* a read that takes the cuboid's leading part instead of its sub-window
block_cutout_from_zero(array, rng) ==
    slice(array, << 0, 0, 0 >>,
          << rng[2].z - rng[1].z, rng[2].y - rng[1].y, rng[2].x - rng[1].x >>)

\* get_data's new_data: the requested sub-window of the cuboid's array
block_cutout(array, rng) == slice(array, ZYX(rng[1]), ZYX(rng[2]))

\* the slices of one iteration are inside their arrays (else ndarray panics)
GetSlicesOk(r, c, array) ==
    LET rng == r.cuboids[c]
        cr == cutout_range(c, rng, r.origin)
    IN  /\ SliceOk(array, ZYX(rng[1]), ZYX(rng[2]))
        /\ AssignOk(r.large_array, cr[1], cr[2], block_cutout(array, rng))

\* the request after cuboid c's array is copied into the output array
GetAssign(r, c, array, fetched) ==
    LET rng == r.cuboids[c]
        cr == cutout_range(c, rng, r.origin)
        rest == r.pending \ {c}
    IN  IF GetSlicesOk(r, c, array)
        THEN [r EXCEPT !.large_array = slice_assign(r.large_array, cr[1], cr[2],
                                                    block_cutout(array, rng)),
                       !.pending = rest, !.sent = {},
                       !.fetches = r.fetches + (IF fetched THEN 1 ELSE 0),
                       !.status = IF rest = {} THEN "done" ELSE "run"]
        ELSE [r EXCEPT !.status = "panic", !.pending = {}, !.sent = {},
                       !.fetches = r.fetches + (IF fetched THEN 1 ELSE 0)]

\* one iteration of get_data's loop, the block being on disk
GetBlockHit(t) ==
    /\ req[t].op = "get" /\ req[t].status = "run"
    /\ \E c \in Iter(t) :
         /\ BlockFile(c) \in DOMAIN files
         /\ LET r == from_shape_vec(BlockShape, files[BlockFile(c)])
            IN  req' = [req EXCEPT ![t] =
                          IF r.ok THEN GetAssign(req[t], c, r.array, FALSE)
                          ELSE Panicked(req[t])]
    /\ UNCHANGED <<files, prev, connected, nreq, track_usage, hist>>

\* one iteration of get_data's loop, a cache miss: the whole cuboid is
\* fetched from the next layer and written back
GetBlockMiss(t) ==
    /\ req[t].op = "get" /\ req[t].status = "run"
    /\ \E c \in Iter(t) :
         /\ BlockFile(c) \notin DOMAIN files
         /\ IF connected
            THEN LET array == relay_get_data(cuboid_start(c), cuboid_stop(c))
                 IN  /\ files' = write_back(files, c, array)
                     /\ req' = [req EXCEPT ![t] = GetAssign(req[t], c, array, TRUE)]
                     /\ hist' = [hist EXCEPT !.filled = hist.filled \cup {c}]
            ELSE /\ req' = [req EXCEPT ![t] = Panicked(req[t])]
                 /\ UNCHANGED <<files, hist>>
    /\ UNCHANGED <<prev, connected, nreq, track_usage>>

\* a whole client put_data
PutData(t, origin, data) ==
    /\ Finished(req[t])
    /\ nreq < MaxReqs
    /\ nreq' = nreq + 1
    /\ prev' = [prev EXCEPT ![t] = Summary(req[t])]
    /\ ~PutPanics(files, origin, data)
    /\ files' = put_data(files, origin, data)
    /\ req' = [req EXCEPT ![t] =
                 [IdleReq EXCEPT !.op = "put", !.status = "done",
                                 !.origin = origin, !.data = data]]
    /\ hist' = [hist EXCEPT !.written =
                   hist.written \cup
                   Touched(get_cuboids_and_indices(
                               origin, PutWindowStop(origin, data), cuboid_size))]
    /\ UNCHANGED <<connected, track_usage>>

\* the upstream goes away, or comes back
Disconnect ==
    /\ connected
    /\ connected' = FALSE
    /\ UNCHANGED <<files, req, prev, nreq, track_usage, hist>>

Reconnect ==
    /\ ~connected
    /\ connected' = TRUE
    /\ UNCHANGED <<files, req, prev, nreq, track_usage, hist>>

DmIdle ==
    /\ files = <<>>
    /\ req = <<>>
    /\ prev = <<>>
    /\ connected = TRUE
    /\ nreq = 0
    /\ track_usage = FALSE
    /\ hist = NoHist

FnIdle ==
    /\ args = <<>>
    /\ ret = <<>>

ThIdle == th = <<>>

CmIdle ==
    /\ chan = <<>>
    /\ rows = {}
    /\ num_cuboids = 0
    /\ now = 0
    /\ remove_calls = <<>>
    /\ logged = <<>>
    /\ remove_failed = FALSE
    /\ cache_roots = {}

(***************************************************************************)
(* The cache manager: the cuboids table (SqliteCacheInterface), the        *)
(* strategy (MaxCountLruStrategy) and SimpleCacheManager::log_request.     *)
(***************************************************************************)

max_cuboids == 2
MaxClock == 2
MaxLog == 4
NumKeys == 4

cache_root_id == 1

\* the cache roots met during execution: id -> path
cache_root_map == [i \in {cache_root_id} |-> CUBOID_ROOT_PATH]

get_cache_root_path_from_map(root_id) ==
    IF root_id \in DOMAIN cache_root_map
    THEN [is_some |-> TRUE, path |-> cache_root_map[root_id]]
    ELSE [is_some |-> FALSE, path |-> <<>>]

path_len == Len(CUBOID_ROOT_PATH)

\* a split one position further on
remainder_of_next(key) == SubSeq(key, path_len + 2, Len(key))

\* key.split_at(self.path_len): the root folder is stripped off
remainder_of(key) == SubSeq(key, path_len + 1, Len(key))

\* the id SQLite gives an inserted row
next_id(rs) ==
    IF rs = {} THEN 1
    ELSE 1 + (CHOOSE m \in { r.id : r \in rs } : \A r \in rs : r.id <= m)

\* the row the table holds after inserting a NewCuboid at time ts: the
\* schema's defaults fill in id, created and last_accessed
new_cuboid_row(rs, new_request, ts) ==
    [id |-> next_id(rs),
     cache_root |-> new_request.cache_root,
     cube_key |-> new_request.cube_key,
     requests |-> new_request.requests,
     created |-> ts,
     last_accessed |-> ts]

\* a log_request whose update leaves requests as it was
sqlite_log_request_no_count(rs, key, ts) ==
    LET remainder == remainder_of(key)
        matched == { r \in rs : r.cube_key = remainder }
    IN  IF matched # {}
        THEN [rows |-> { IF r \in matched
                         THEN [r EXCEPT !.last_accessed = ts]
                         ELSE r : r \in rs },
              created |-> FALSE]
        ELSE [rows |-> rs \cup { new_cuboid_row(rs, [cache_root |-> cache_root_id,
                                                      cube_key |-> remainder,
                                                      requests |-> 1], ts) },
              created |-> TRUE]

\* a log_request that reports every access as a new cuboid
sqlite_log_request_all_new(rs, key, ts) ==
    LET remainder == remainder_of(key)
        matched == { r \in rs : r.cube_key = remainder }
    IN  IF matched # {}
        THEN [rows |-> { IF r \in matched
                         THEN [r EXCEPT !.requests = r.requests + 1,
                                        !.last_accessed = ts]
                         ELSE r : r \in rs },
              created |-> TRUE]
        ELSE [rows |-> rs \cup { new_cuboid_row(rs, [cache_root |-> cache_root_id,
                                                      cube_key |-> remainder,
                                                      requests |-> 1], ts) },
              created |-> TRUE]

\* SqliteCacheInterface::log_request at time ts: the table afterwards, and
\* whether a row was inserted
sqlite_log_request(rs, key, ts) ==
    LET remainder == remainder_of(key)
        matched == { r \in rs : r.cube_key = remainder }
    IN  IF matched # {}
        THEN [rows |-> { IF r \in matched
                         THEN [r EXCEPT !.requests = r.requests + 1,
                                        !.last_accessed = ts]
                         ELSE r : r \in rs },
              created |-> FALSE]
        ELSE [rows |-> rs \cup { new_cuboid_row(rs, [cache_root |-> cache_root_id,
                                                      cube_key |-> remainder,
                                                      requests |-> 1], ts) },
              created |-> TRUE]

\* the order in which the query sees rows of equal last_accessed: row order
tie_before(a, b) == a.id <= b.id

\* the order of "ORDER BY last_accessed"
lru_before(a, b) ==
    \/ a.last_accessed < b.last_accessed
    \/ a.last_accessed = b.last_accessed /\ tie_before(a, b)

\* the reverse order
mru_before(a, b) ==
    \/ a.last_accessed > b.last_accessed
    \/ a.last_accessed = b.last_accessed /\ tie_before(b, a)

RECURSIVE find_mru(_, _)
\* a finder that returns the most recently used rows
find_mru(rs, num) ==
    IF num = 0 \/ rs = {} THEN <<>>
    ELSE LET m == CHOOSE r \in rs : \A q \in rs : mru_before(r, q)
         IN  << m >> \o find_mru(rs \ {m}, num - 1)

RECURSIVE find_first(_, _)
\* a finder without the ORDER BY: rows in row order
find_first(rs, num) ==
    IF num = 0 \/ rs = {} THEN <<>>
    ELSE LET m == CHOOSE r \in rs : \A q \in rs : tie_before(r, q)
         IN  << m >> \o find_first(rs \ {m}, num - 1)

RECURSIVE find_lru(_, _)
\* SqliteCacheInterface::find_lru: up to num rows, least recently used first
find_lru(rs, num) ==
    IF num = 0 \/ rs = {} THEN <<>>
    ELSE LET m == CHOOSE r \in rs : \A q \in rs : lru_before(r, q)
         IN  << m >> \o find_lru(rs \ {m}, num - 1)

\* a strategy that starts cleaning when the maximum is reached
ready_for_cleaning_at_max(size) == size >= max_cuboids

\* Scheduling::ready_for_cleaning
ready_for_cleaning(size) == size > max_cuboids

add(size, num) == size + num

\* a counter that is never decremented
sub_nothing(size, num) == size

\* a decrement without the test against the counter
sub_unchecked(size, num) == size - num

\* LimitNumCuboids::sub: saturating at zero
sub(size, num) == IF num > size THEN 0 ELSE size - num

\* a selection that asks for one victim more than the excess
select_one_more(size, rs) ==
    LET num_to_remove == size - max_cuboids + 1
    IN  IF num_to_remove <= 0 THEN <<>> ELSE find_lru(rs, num_to_remove)

\* Selection::select_cuboids_for_removal
select_cuboids_for_removal(size, rs) ==
    LET num_to_remove == size - max_cuboids
    IN  IF num_to_remove <= 0 THEN <<>> ELSE find_lru(rs, num_to_remove)

\* the path clean_cache hands to the remover: root path, then cube_key
cuboid_path(cuboid) ==
    get_cache_root_path_from_map(cuboid.cache_root).path \o cuboid.cube_key

\* SqliteCacheInterface::clean_cache, the removals of the paths in failing
\* returning an error: the table afterwards, the count and the remover calls
clean_cache(rs, unwanted, failing) ==
    LET known == { i \in DOMAIN unwanted :
                     get_cache_root_path_from_map(unwanted[i].cache_root).is_some }
        gone == { unwanted[i] : i \in { j \in known :
                                          cuboid_path(unwanted[j]) \notin failing } }
    IN  [rows |-> rs \ gone,
         remove_count |-> Cardinality(gone),
         calls |-> [i \in DOMAIN unwanted |-> cuboid_path(unwanted[i])],
         removed |-> { cuboid_path(c) : c \in gone }]

\* one record of clean_cache's loop that deletes the row although the file
\* could not be removed
clean_one_no_continue(rs, cuboid, failing, db_failing) ==
    LET path == cuboid_path(cuboid)
        file_ok == path \notin failing
        file_ev == [step |-> "remove_cuboid_file", id |-> cuboid.id,
                    path |-> path, ok |-> file_ok]
        row_ok == cuboid.id \notin db_failing
        row_ev == [step |-> "remove_cuboid_entry", id |-> cuboid.id,
                   path |-> path, ok |-> row_ok]
    IN  IF ~get_cache_root_path_from_map(cuboid.cache_root).is_some
        THEN [rows |-> rs, counted |-> 0, events |-> << >>]
        ELSE IF row_ok
        THEN [rows |-> { r \in rs : r.id # cuboid.id }, counted |-> 1,
              events |-> << file_ev, row_ev >>]
        ELSE [rows |-> rs, counted |-> 0, events |-> << file_ev, row_ev >>]

\* one record of clean_cache's loop that counts a record as soon as its file
\* is removed
clean_one_counts_files(rs, cuboid, failing, db_failing) ==
    LET path == cuboid_path(cuboid)
        file_ok == path \notin failing
        file_ev == [step |-> "remove_cuboid_file", id |-> cuboid.id,
                    path |-> path, ok |-> file_ok]
        row_ok == cuboid.id \notin db_failing
        row_ev == [step |-> "remove_cuboid_entry", id |-> cuboid.id,
                   path |-> path, ok |-> row_ok]
    IN  IF ~get_cache_root_path_from_map(cuboid.cache_root).is_some
        THEN [rows |-> rs, counted |-> 0, events |-> << >>]
        ELSE IF ~file_ok
        THEN [rows |-> rs, counted |-> 0, events |-> << file_ev >>]
        ELSE [rows |-> IF row_ok THEN { r \in rs : r.id # cuboid.id } ELSE rs,
              counted |-> 1, events |-> << file_ev, row_ev >>]

\* one record of clean_cache's loop, the file remover failing on the paths in
\* failing and remove_cuboid_entry on the ids in db_failing: the table
\* afterwards, what the record adds to remove_count, and the calls made
clean_one(rs, cuboid, failing, db_failing) ==
    LET path == cuboid_path(cuboid)
        file_ok == path \notin failing
        file_ev == [step |-> "remove_cuboid_file", id |-> cuboid.id,
                    path |-> path, ok |-> file_ok]
        row_ok == cuboid.id \notin db_failing
        row_ev == [step |-> "remove_cuboid_entry", id |-> cuboid.id,
                   path |-> path, ok |-> row_ok]
    IN  IF ~get_cache_root_path_from_map(cuboid.cache_root).is_some
        THEN [rows |-> rs, counted |-> 0, events |-> << >>]
        ELSE IF ~file_ok
        THEN [rows |-> rs, counted |-> 0, events |-> << file_ev >>]
        ELSE IF row_ok
        THEN [rows |-> { r \in rs : r.id # cuboid.id }, counted |-> 1,
              events |-> << file_ev, row_ev >>]
        ELSE [rows |-> rs, counted |-> 0, events |-> << file_ev, row_ev >>]

RECURSIVE clean_cache_steps(_, _, _, _)
\* SqliteCacheInterface::clean_cache, call by call
clean_cache_steps(rs, unwanted, failing, db_failing) ==
    IF unwanted = << >>
    THEN [rows |-> rs, remove_count |-> 0, events |-> << >>]
    ELSE LET one == clean_one(rs, Head(unwanted), failing, db_failing)
             rest == clean_cache_steps(one.rows, Tail(unwanted), failing,
                                       db_failing)
         IN  [rows |-> rest.rows,
              remove_count |-> one.counted + rest.remove_count,
              events |-> one.events \o rest.events]

\* SimpleCacheManager::log_request at time ts
log_request(rs, size, key, ts, failing) ==
    LET logd == sqlite_log_request(rs, key, ts)
    IN  IF ~logd.created
        THEN [rows |-> logd.rows, size |-> size, calls |-> <<>>, removed |-> {}]
        ELSE LET added == add(size, 1)
             IN  IF ~ready_for_cleaning(added)
                 THEN [rows |-> logd.rows, size |-> added, calls |-> <<>>,
                       removed |-> {}]
                 ELSE LET cuboids == select_cuboids_for_removal(added, logd.rows)
                          cleaned == clean_cache(logd.rows, cuboids, failing)
                      IN  [rows |-> cleaned.rows,
                           size |-> sub(added, cleaned.remove_count),
                           calls |-> cleaned.calls,
                           removed |-> cleaned.removed]

\* the paths log_request would hand to the remover
Victims(rs, size, key, ts) ==
    LET r == log_request(rs, size, key, ts, {})
    IN  { r.calls[i] : i \in DOMAIN r.calls }

\* the times the clock may show next
Times == { ts \in now .. now + 1 : ts <= MaxClock }

\* a request thread's tx.send(key)
Send(key) ==
    /\ Len(chan) + Len(logged) < MaxLog
    /\ chan' = Append(chan, key)
    /\ UNCHANGED <<rows, num_cuboids, now, remove_calls, logged, remove_failed, cache_roots>>

\* the consumer thread of usage_tracker::run takes the next key and logs it,
\* the file remover failing on the paths in failing
Consume(ts, failing) ==
    /\ chan # <<>>
    /\ LET r == log_request(rows, num_cuboids, Head(chan), ts, failing)
       IN  /\ rows' = r.rows
           /\ num_cuboids' = r.size
           /\ remove_calls' = remove_calls \o r.calls
           /\ remove_failed' =
                (remove_failed \/ \E i \in DOMAIN r.calls : r.calls[i] \in failing)
    /\ chan' = Tail(chan)
    /\ logged' = Append(logged, Head(chan))
    /\ now' = ts
    /\ UNCHANGED cache_roots

(***************************************************************************)
(* The cache manager alone, as the repository's tests drive it: keys sent  *)
(* to the usage channel, a file remover that may fail.                     *)
(***************************************************************************)

\* the keys of the tests: CUBOID_ROOT_PATH/coll/exp/chan/i
Keys == { CUBOID_ROOT_PATH \o << "/", "coll/exp/chan", "/", i >> : i \in 1 .. NumKeys }

InitCache ==
    /\ CmIdle
    /\ ThIdle
    /\ UtIdle
    /\ DmIdle
    /\ FnIdle

ConsumeAny ==
    /\ chan # <<>>
    /\ \E ts \in Times :
         \E failing \in SUBSET Victims(rows, num_cuboids, Head(chan), ts) :
           Consume(ts, failing)

NextCache ==
    \/ \E key \in Keys : Send(key) /\ UNCHANGED <<fnVars, dmVars, thVars, utVars>>
    \/ ConsumeAny /\ UNCHANGED <<fnVars, dmVars, thVars, utVars>>

SpecCache == InitCache /\ [][NextCache]_vars

Range(seq) == { seq[i] : i \in DOMAIN seq }

\* C6: from an empty table and counter 0, file removals succeeding, the
\* counter never exceeds the maximum after a log_request returns and equals
\* the number of rows; once more distinct keys than the maximum have been
\* logged, the counter and the number of rows equal the maximum.
C6_EvictionConvergence ==
    ~remove_failed =>
        /\ num_cuboids <= max_cuboids
        /\ Cardinality(rows) = num_cuboids
        /\ Cardinality(Range(logged)) > max_cuboids => num_cuboids = max_cuboids

\* C6 witness: removals succeeding, two keys more than the maximum were
\* logged, a repeated key among them, and the counter is at the maximum.
C6_Witness ==
    /\ ~remove_failed
    /\ Cardinality(Range(logged)) > max_cuboids
    /\ Len(logged) > Cardinality(Range(logged))
    /\ Len(remove_calls) >= 1
    /\ num_cuboids = max_cuboids

Distinct(seq) == \A i, j \in DOMAIN seq : i # j => seq[i] # seq[j]

RowsOf(rs, key) == { r \in rs : r.cube_key = remainder_of(key) }

\* how often the consumer has logged key
Accesses(key) == Cardinality({ i \in DOMAIN logged : logged[i] = key })

\* C16: on every table the cache manager reaches, log_request of a key with
\* no row inserts one row with requests = 1 and returns true; log_request of a
\* key with a row returns false, inserts nothing and adds 1 to that row's
\* requests.  A key has at most one row, requests is at least 1, and a row
\* that was never handed to eviction has requests = the number of accesses.
C16_LogAccessCounts ==
    /\ \A r \in rows : r.requests >= 1
    /\ \A key \in Keys : Cardinality(RowsOf(rows, key)) <= 1
    /\ \A key \in Keys :
         \A r \in RowsOf(rows, key) :
            cuboid_path(r) \notin Range(remove_calls) => r.requests = Accesses(key)
    /\ \A key \in Keys :
         LET res == sqlite_log_request(rows, key, now)
             old == RowsOf(rows, key)
             new == RowsOf(res.rows, key)
         IN  /\ res.rows \ new = rows \ old
             /\ Cardinality(new) = 1
             /\ IF old = {}
                THEN res.created /\ \A r \in new : r.requests = 1
                ELSE /\ ~res.created
                     /\ \A r \in new : \A o \in old :
                           r = [o EXCEPT !.requests = o.requests + 1,
                                         !.last_accessed = now]

\* a key was logged three times and its row was never handed to eviction
C16_Witness ==
    \E key \in Keys :
        \E r \in RowsOf(rows, key) :
            /\ cuboid_path(r) \notin Range(remove_calls)
            /\ Accesses(key) = 3
            /\ r.requests = 3

\* C17: on every table the cache manager reaches and for every n, find_lru(n)
\* returns min(n, number of rows) different rows of the table, in ascending
\* order of last_accessed, and no row left out is older than a row returned.
C17_FindLru ==
    \A n \in 0 .. Cardinality(rows) + 1 :
        LET lru == find_lru(rows, n)
        IN  /\ Len(lru) = IF n <= Cardinality(rows) THEN n ELSE Cardinality(rows)
            /\ Range(lru) \subseteq rows
            /\ Distinct(lru)
            /\ \A i, k \in DOMAIN lru :
                  i < k => lru[i].last_accessed <= lru[k].last_accessed
            /\ \A r \in Range(lru) : \A q \in rows \ Range(lru) :
                  r.last_accessed <= q.last_accessed

\* three rows whose order of last access is not the order of insertion
C17_Witness ==
    /\ Cardinality(rows) >= 3
    /\ \E r, q \in rows : r.id < q.id /\ r.last_accessed > q.last_accessed

(***************************************************************************)
(* Reads only, on an empty block store: one request thread.                *)
(***************************************************************************)

InitRead ==
    /\ files = <<>>
    /\ req = [t \in {1} |-> IdleReq]
    /\ prev = [t \in {1} |-> Summary(IdleReq)]
    /\ connected = TRUE
    /\ nreq = 0
    /\ track_usage = FALSE
    /\ hist = NoHist
    /\ FnIdle
    /\ CmIdle
    /\ ThIdle
    /\ UtIdle

NextRead ==
    \/ \E w \in Windows : GetStart(1, w[1], w[2]) /\ UNCHANGED <<fnVars, cmVars, thVars, utVars>>
    \/ GetBlockHit(1) /\ UNCHANGED <<fnVars, cmVars, thVars, utVars>>
    \/ GetBlockMiss(1) /\ UNCHANGED <<fnVars, cmVars, thVars, utVars>>
    \/ Disconnect /\ UNCHANGED <<fnVars, cmVars, thVars, utVars>>
    \/ Reconnect /\ UNCHANGED <<fnVars, cmVars, thVars, utVars>>

SpecRead == InitRead /\ [][NextRead]_vars

\* C1: starting from an empty block store, with the next layer returning
\* the fixed volume U, every finished get_data returns exactly U restricted
\* to its window [origin, destination).
C1_ReadThrough ==
    \A t \in DOMAIN req :
        (req[t].op = "get" /\ req[t].status = "done")
            => req[t].large_array = relay_get_data(req[t].origin, req[t].destination)

\* every cuboid of a request's decomposition is a whole block on disk
AllLocal(r) ==
    \A c \in DOMAIN r.cuboids :
        /\ BlockFile(c) \in DOMAIN files
        /\ Len(files[BlockFile(c)]) = Prod(BlockShape)

\* the call in progress repeats the previous call's window, and that call
\* finished after at least one miss served by the next layer
RepeatsMissedRead(t) ==
    /\ req[t].op = "get"
    /\ prev[t].op = "get" /\ prev[t].status = "done" /\ prev[t].fetches > 0
    /\ req[t].origin = prev[t].origin
    /\ req[t].destination = prev[t].destination

\* C3: after a get_data that missed and was served by the next layer, every
\* cuboid of its decomposition is on disk, and an identical next get_data
\* never calls the next layer, never fails and returns the same bytes.
C3_WriteBack ==
    \A t \in DOMAIN req :
        /\ (req[t].op = "get" /\ req[t].status = "done") => AllLocal(req[t])
        /\ RepeatsMissedRead(t) =>
              /\ req[t].status # "panic"
              /\ req[t].fetches = 0
              /\ req[t].status = "done" => req[t].large_array = prev[t].result

\* C3 witness: the repeated read finished with the next layer disconnected,
\* on a window with data in it.
C3_Witness ==
    /\ ~connected
    /\ RepeatsMissedRead(1)
    /\ req[1].status = "done"
    /\ Prod(req[1].large_array.shape) > 0

\* the raw vector of the upstream volume over cuboid c, each axis with its
\* own cuboid size
BlockOfU(c) ==
    [n \in 1 .. Prod(BlockShape) |->
        LET p == Unflat(n - 1, BlockShape)
        IN  U(c.x * cuboid_size.x + p[3], c.y * cuboid_size.y + p[2],
              c.z * cuboid_size.z + p[1])]

\* C26: a miss for cuboid index I fetches the region [I*S, (I+1)*S) of the
\* next layer, each axis with its own cuboid size, and the step leaves
\* exactly those bytes in the block file of I, which did not exist before.
C26_MissExpansion ==
    [][\A c \in hist'.filled \ hist.filled :
          /\ BlockFile(c) \notin DOMAIN files
          /\ files'[BlockFile(c)] = BlockOfU(c)]_vars

\* C26 witness: two cuboids were missed and hold their own bytes
C26_Witness ==
    /\ Cardinality(hist.filled) = 2
    /\ \A c \in hist.filled : files[BlockFile(c)] = BlockOfU(c)

\* C11: when get_data's loop takes a cuboid that holds a voxel of the window
\* and was neither fetched from the next layer nor written by a client, while
\* the next layer fails (a NullDataManager, or a fetch that panics), the call
\* fails: it never hands out a block nobody filled.
C11_FailLoud ==
    [][\A t \in DOMAIN req :
         \A c \in Touched(req[t].cuboids) \cap req[t].pending :
            ( /\ req[t].op = "get" /\ req[t].status = "run"
              /\ ~connected
              /\ c \notin (hist.filled \cup hist.written)
              /\ c \notin req'[t].pending )
            => req'[t].status = "panic"]_vars

(***************************************************************************)
(* Reads and writes on a block store that may hold blocks cached by an     *)
(* earlier run: one request thread.                                        *)
(***************************************************************************)

\* the cuboids with data inside the request windows
DataCuboids ==
    { Vector3(i, j, k) : i \in 0 .. (MaxX - 1) \div cuboid_size.x,
                         j \in 0 .. (MaxY - 1) \div cuboid_size.y,
                         k \in 0 .. (MaxZ - 1) \div cuboid_size.z }

\* a store holding the upstream's block for each cuboid of cs
CachedStore(cs) ==
    [ f \in { BlockFile(c) : c \in cs } |->
        LET c == CHOOSE d \in cs : BlockFile(d) = f
        IN  into_raw_vec(relay_get_data(cuboid_start(c), cuboid_stop(c))) ]

InitStore ==
    /\ files \in { CachedStore(cs) : cs \in SUBSET DataCuboids }
    /\ req = [t \in {1} |-> IdleReq]
    /\ prev = [t \in {1} |-> Summary(IdleReq)]
    /\ connected = TRUE
    /\ nreq = 0
    /\ track_usage = FALSE
    /\ hist = NoHist
    /\ FnIdle
    /\ CmIdle
    /\ ThIdle
    /\ UtIdle

NextStore ==
    \/ \E w \in Windows : GetStart(1, w[1], w[2]) /\ UNCHANGED <<fnVars, cmVars, thVars, utVars>>
    \/ GetBlockHit(1) /\ UNCHANGED <<fnVars, cmVars, thVars, utVars>>
    \/ GetBlockMiss(1) /\ UNCHANGED <<fnVars, cmVars, thVars, utVars>>
    \/ \E w \in Windows, p \in 1 .. NumPatterns :
         PutData(1, w[1], ClientBuffer(p, w[1], w[2])) /\ UNCHANGED <<fnVars, cmVars, thVars, utVars>>

SpecStore == InitStore /\ [][NextStore]_vars

\* the window written by a finished put_data
PutStop(r) ==
    Vector3(r.origin.x + r.data.shape[3], r.origin.y + r.data.shape[2],
            r.origin.z + r.data.shape[1])

\* the call in progress reads back (part of) what the previous call wrote
ReadsBack(t) ==
    /\ req[t].op = "get"
    /\ prev[t].op = "put" /\ prev[t].status = "done"
    /\ LeqV(prev[t].origin, req[t].origin)
    /\ LeqV(req[t].destination, PutStop(prev[t]))

\* C2: put_data(O, B) followed immediately by a get_data of the same window
\* or of a sub-window returns B's bytes there, never fails and never calls
\* the next layer.
C2_RoundTrip ==
    \A t \in DOMAIN req :
        ReadsBack(t) =>
            /\ req[t].status # "panic"
            /\ req[t].fetches = 0
            /\ req[t].status = "done" =>
                 req[t].large_array =
                    slice(prev[t].data,
                          << req[t].origin.z - prev[t].origin.z,
                             req[t].origin.y - prev[t].origin.y,
                             req[t].origin.x - prev[t].origin.x >>,
                          << req[t].destination.z - prev[t].origin.z,
                             req[t].destination.y - prev[t].origin.y,
                             req[t].destination.x - prev[t].origin.x >>)

\* C2 witness: a buffer written across two cuboids was read back as a
\* sub-window that starts inside the first cuboid and ends inside the second.
C2_Witness ==
    /\ ReadsBack(1)
    /\ req[1].status = "done"
    /\ prev[1].origin.x = 0 /\ PutStop(prev[1]).x = 3
    /\ req[1].origin.x = 1 /\ req[1].destination.x = 3
    /\ Prod(req[1].large_array.shape) = 2

\* position p = <<z, y, x>> of a block is inside the local range rng
InRange(p, rng) ==
    /\ rng[1].z <= p[1] /\ p[1] < rng[2].z
    /\ rng[1].y <= p[2] /\ p[2] < rng[2].y
    /\ rng[1].x <= p[3] /\ p[3] < rng[2].x

\* C27: a put_data step changes only voxels of its window: a block file that
\* holds no voxel of the window is neither created nor modified, and in a
\* block that does, every voxel outside the written local range keeps its
\* value if the block existed and is 0 if the block is new.
C27_PutFrame ==
    [][\A t \in DOMAIN req :
          (req'[t].op = "put" /\ nreq' = nreq + 1) =>
             LET o == req'[t].origin
                 cuboids == get_cuboids_and_indices(
                               o, PutWindowStop(o, req'[t].data), cuboid_size)
                 inside == Touched(cuboids)
             IN  /\ \A f \in DOMAIN files' :
                       f \notin { BlockFile(c) : c \in inside } =>
                          f \in DOMAIN files /\ files'[f] = files[f]
                 /\ \A c \in inside : \A n \in 1 .. Prod(BlockShape) :
                       \/ InRange(Unflat(n - 1, BlockShape), cuboids[c])
                       \/ files'[BlockFile(c)][n] =
                             (IF BlockFile(c) \in DOMAIN files
                              THEN files[BlockFile(c)][n] ELSE 0)]_vars

(***************************************************************************)
(* The whole pipeline: one request thread with track_usage set, the usage  *)
(* channel, and the consumer thread with the db tracker and the real file  *)
(* remover.                                                                *)
(***************************************************************************)

\* RealFileRemover::remove fails on a path that is not a file
real_remover_failing(fs, paths) == { p \in paths : p \notin DOMAIN fs }

\* the block store without the files in gone
remove_files(fs, gone) == [f \in DOMAIN fs \ gone |-> fs[f]]

\* the consumer's log_request, evicting through RealFileRemover
TrackConsume ==
    /\ chan # <<>>
    /\ \E ts \in Times :
         LET failing == real_remover_failing(
                            files, Victims(rows, num_cuboids, Head(chan), ts))
         IN  /\ Consume(ts, failing)
             /\ files' = remove_files(files,
                            log_request(rows, num_cuboids, Head(chan), ts,
                                        failing).removed)
    /\ UNCHANGED <<req, prev, connected, nreq, track_usage, hist>>

\* the request windows of the pipeline: one voxel thick in y and z, or of zero
\* extent (origin = destination)
TrackWindows ==
    { w \in Windows :
        \/ w[1].y = 0 /\ w[2].y = 1 /\ w[1].z = 0 /\ w[2].z = 1
        \/ w[1] = w[2] }

cmButChan == <<rows, num_cuboids, now, remove_calls, logged, remove_failed, cache_roots>>

InitTrack ==
    /\ files = <<>>
    /\ req = [t \in {1} |-> IdleReq]
    /\ prev = [t \in {1} |-> Summary(IdleReq)]
    /\ connected = TRUE
    /\ nreq = 0
    /\ track_usage = TRUE
    /\ hist = NoHist
    /\ FnIdle
    /\ CmIdle
    /\ ThIdle
    /\ ut = Started("Sqlite")

NextTrack ==
    \/ \E w \in TrackWindows : GetStart(1, w[1], w[2]) /\ UNCHANGED <<fnVars, cmVars, thVars, utVars>>
    \/ GetSend(1) /\ UNCHANGED <<fnVars, cmButChan, thVars, utVars>>
    \/ GetBlockHit(1) /\ UNCHANGED <<fnVars, cmVars, thVars, utVars>>
    \/ GetBlockMiss(1) /\ UNCHANGED <<fnVars, cmVars, thVars, utVars>>
    \/ \E w \in TrackWindows, p \in 1 .. NumPatterns :
         PutData(1, w[1], ClientBuffer(p, w[1], w[2])) /\ UNCHANGED <<fnVars, cmVars, thVars, utVars>>
    \/ Disconnect /\ UNCHANGED <<fnVars, cmVars, thVars, utVars>>
    \/ Reconnect /\ UNCHANGED <<fnVars, cmVars, thVars, utVars>>
    \/ TrackConsume /\ UNCHANGED <<fnVars, thVars, utVars>>

SpecTrack == InitTrack /\ [][NextTrack]_vars

\* no request in flight, the usage channel drained, no file removal failed
Quiescent ==
    /\ \A t \in DOMAIN req : Finished(req[t])
    /\ chan = <<>>
    /\ ~remove_failed

\* C5: with the db tracker and maximum N, in every quiescent state the
\* number of block files under the cache root is at most N.
C5_BoundedCache ==
    Quiescent => Cardinality(DOMAIN files) <= max_cuboids

\* C10: every row of the cuboids table refers to a block file that exists.
C10_MetadataNeverLeads ==
    \A r \in rows : cuboid_path(r) \in DOMAIN files

\* C12: a get_data with origin = destination has a buffer of shape (0,0,0),
\* fetches nothing from the next layer and sends no key to the usage tracker.
C12_ZeroExtentRead ==
    \A t \in DOMAIN req :
        (req[t].op = "get" /\ req[t].origin = req[t].destination) =>
            /\ req[t].large_array.shape = << 0, 0, 0 >>
            /\ req[t].fetches = 0
            /\ req[t].sent = {}

\* every key sent to the usage tracker so far, in the order of sending
AllSent == logged \o chan

\* the cuboids of a get_data for which the loop has sent the key
Reached(r) == (DOMAIN r.cuboids \ r.pending) \cup r.sent

\* C28: with tracking on, the keys get_data has sent are the last keys sent,
\* one per cuboid its loop has reached, each that block's file name (so a
\* finished get_data has sent one key per cuboid of its decomposition); a
\* key is sent only by get_data's loop, for a cuboid not yet handled, so
\* put_data and the write-back of a miss send nothing; and the loop reads
\* or fetches a block only when the last key sent is that block's.
C28_UsageEventsPerRead ==
    /\ [](\A t \in DOMAIN req :
            (req[t].op = "get" /\ req[t].status \in {"run", "done"}) =>
               LET k == Cardinality(Reached(req[t]))
               IN  /\ Len(AllSent) >= k
                   /\ { AllSent[i] : i \in Len(AllSent) - k + 1 .. Len(AllSent) }
                         = { BlockFile(c) : c \in Reached(req[t]) })
    /\ [][(AllSent' # AllSent =>
              \E u \in DOMAIN req : \E c \in req[u].pending :
                 /\ req[u].op = "get" /\ req[u].status = "run"
                 /\ req[u].sent = {} /\ req'[u].sent = {c}
                 /\ req'[u].pending = req[u].pending
                 /\ AllSent' = Append(AllSent, BlockFile(c)))
           /\ (\A t \in DOMAIN req :
                 \A c \in req[t].pending \ req'[t].pending :
                    req'[t].status # "panic" =>
                       /\ req[t].sent = {c}
                       /\ AllSent # << >>
                       /\ AllSent[Len(AllSent)] = BlockFile(c)
                       /\ AllSent' = AllSent
                       /\ req'[t].pending = req[t].pending \ {c})]_vars

\* C28 witness: a get_data over two cuboids finished after a miss was written
\* back, following another get_data that sent a key
C28_Witness ==
    /\ req[1].op = "get" /\ req[1].status = "done"
    /\ Cardinality(DOMAIN req[1].cuboids) = 2
    /\ prev[1].op = "get" /\ prev[1].status = "done"
    /\ hist.filled # {}
    /\ Len(AllSent) >= 3

(***************************************************************************)
(* Two request threads on one block store, file operation by file          *)
(* operation: exists(), fs::read, File::create and write_all are separate  *)
(* steps, and nothing locks a block file between them.  Each loop takes    *)
(* its next entry from either end of the index order, a part of the        *)
(* orders a HashMap iteration can produce.                                 *)
(***************************************************************************)

Threads == {1, 2}

IndexBefore(a, b) ==
    \/ a.x < b.x
    \/ a.x = b.x /\ a.y < b.y
    \/ a.x = b.x /\ a.y = b.y /\ a.z <= b.z

Ends(s) ==
    { a \in s : (\A b \in s : IndexBefore(a, b)) \/ (\A b \in s : IndexBefore(b, a)) }

IdleThread ==
    [pc |-> "idle", op |-> "none", origin |-> Origin0, destination |-> Origin0,
     cuboids |-> <<>>, pending |-> {}, cur |-> {}, large_array |-> NoArray,
     missed |-> {},
     p_origin |-> Origin0, p_data |-> NoArray, p_cuboids |-> <<>>,
     p_pending |-> {}, p_cur |-> {}, p_bytes |-> <<>>]

\* the thread enters put_data(origin, data)
EnterPut(r, origin, data) ==
    LET cuboids == get_cuboids_and_indices(origin, PutWindowStop(origin, data),
                                           cuboid_size)
    IN  [r EXCEPT !.pc = "put_loop", !.p_origin = origin, !.p_data = data,
                  !.p_cuboids = cuboids, !.p_pending = DOMAIN cuboids,
                  !.p_cur = {}, !.p_bytes = <<>>]

\* get_data up to its loop
ConcGetStart(t, origin, destination) ==
    /\ th[t].pc = "idle"
    /\ LET cuboids == get_cuboids_and_indices(origin, destination, cuboid_size)
       IN  th' = [th EXCEPT ![t] =
                    [IdleThread EXCEPT
                       !.pc = "get_loop", !.op = "get", !.origin = origin,
                       !.destination = destination, !.cuboids = cuboids,
                       !.pending = DOMAIN cuboids,
                       !.large_array = zeros(<< destination.z - origin.z,
                                                destination.y - origin.y,
                                                destination.x - origin.x >>)]]
    /\ UNCHANGED files

\* the thread after cuboid c's array is copied into the output array
ConcAssign(r, c, array) ==
    LET g == GetAssign([cuboids |-> r.cuboids, pending |-> r.pending,
                        sent |-> {}, origin |-> r.origin,
                        large_array |-> r.large_array, fetches |-> 0,
                        status |-> "run"], c, array, FALSE)
    IN  [r EXCEPT !.large_array = g.large_array, !.pending = g.pending,
                  !.cur = {},
                  !.pc = IF g.status = "run" THEN "get_loop" ELSE g.status]

\* one iteration of get_data's loop up to the end of its file access: the
\* file is read, or the block is fetched and put_data is entered
ConcGetBlock(t) ==
    /\ th[t].pc = "get_loop"
    /\ \E c \in Ends(th[t].pending) :
         IF BlockFile(c) \in DOMAIN files
         THEN LET r == from_shape_vec(BlockShape, files[BlockFile(c)])
              IN  th' = [th EXCEPT ![t] =
                           IF r.ok THEN ConcAssign(th[t], c, r.array)
                           ELSE [th[t] EXCEPT !.pc = "panic"]]
         ELSE LET array == relay_get_data(cuboid_start(c), cuboid_stop(c))
              IN  th' = [th EXCEPT ![t] =
                           EnterPut([th[t] EXCEPT !.cur = {c},
                                                  !.missed = th[t].missed \cup {c}],
                                    cuboid_start(c), array)]
    /\ UNCHANGED files

\* a client's put_data up to its loop
ConcPutStart(t, origin, data) ==
    /\ th[t].pc = "idle"
    /\ th' = [th EXCEPT ![t] =
                EnterPut([IdleThread EXCEPT !.op = "put"], origin, data)]
    /\ UNCHANGED files

\* put_data's test "filepath.exists() && fs::read(..).len() > 0"
ConcPutCheck(t) ==
    /\ th[t].pc = "put_loop"
    /\ \E c \in Ends(th[t].p_pending) :
         th' = [th EXCEPT ![t].p_cur = {c},
                          ![t].pc = IF has_block(files, BlockFile(c))
                                    THEN "put_read" ELSE "put_create"]
    /\ UNCHANGED files

\* put_data's second fs::read and from_shape_vec(..).unwrap()
ConcPutRead(t) ==
    /\ th[t].pc = "put_read"
    /\ \E c \in th[t].p_cur :
         LET r == from_shape_vec(BlockShape, files[BlockFile(c)])
         IN  th' = [th EXCEPT ![t] =
                      IF r.ok
                      THEN [th[t] EXCEPT
                              !.pc = "put_trunc",
                              !.p_bytes = put_bytes(r.array, c, th[t].p_cuboids[c],
                                                    th[t].p_origin, th[t].p_data)]
                      ELSE [th[t] EXCEPT !.pc = "panic"]]
    /\ UNCHANGED files

\* put_data's create_dir_all and File::create: the file is there and empty
ConcPutCreate(t) ==
    /\ th[t].pc = "put_create"
    /\ \E c \in th[t].p_cur :
         /\ files' = write_file(files, BlockFile(c), <<>>)
         /\ th' = [th EXCEPT
                     ![t].pc = "put_trunc",
                     ![t].p_bytes = put_bytes(zeros(BlockShape), c,
                                              th[t].p_cuboids[c],
                                              th[t].p_origin, th[t].p_data)]

\* "Write cuboid to disk": File::create truncates the file
ConcPutTrunc(t) ==
    /\ th[t].pc = "put_trunc"
    /\ \E c \in th[t].p_cur : files' = write_file(files, BlockFile(c), <<>>)
    /\ th' = [th EXCEPT ![t].pc = "put_write"]

\* write_all, the end of the iteration and, after the last one, put_data's
\* return: to the client, or into get_data's iteration
ConcPutWrite(t) ==
    /\ th[t].pc = "put_write"
    /\ \E c \in th[t].p_cur :
         /\ files' = write_file(files, BlockFile(c), th[t].p_bytes)
         /\ LET rest == th[t].p_pending \ {c}
                r == [th[t] EXCEPT !.p_pending = rest, !.p_cur = {},
                                   !.p_bytes = <<>>]
            IN  th' = [th EXCEPT ![t] =
                         IF rest # {} THEN [r EXCEPT !.pc = "put_loop"]
                         ELSE IF r.op = "put" THEN [r EXCEPT !.pc = "done"]
                         ELSE ConcAssign(r, CHOOSE d \in r.cur : TRUE, r.p_data)]

\* the windows of the two threads: one voxel in cuboid (0,0,0), one in its
\* neighbour (1,0,0)
ConcWindows ==
    { << Vector3(0, 0, 0), Vector3(1, 1, 1) >>,
      << Vector3(cuboid_size.x, 0, 0), Vector3(cuboid_size.x + 1, 1, 1) >> }

InitConc ==
    /\ files = <<>>
    /\ th = [t \in Threads |-> IdleThread]
    /\ req = <<>> /\ prev = <<>> /\ connected = TRUE /\ nreq = 0
    /\ track_usage = FALSE
    /\ hist = NoHist
    /\ FnIdle
    /\ CmIdle
    /\ UtIdle

concOthers == <<args, ret, req, prev, connected, nreq, track_usage, hist, cmVars, utVars>>

NextConc ==
    \/ \E t \in Threads, w \in ConcWindows :
         ConcGetStart(t, w[1], w[2]) /\ UNCHANGED concOthers
    \/ \E t \in Threads : ConcGetBlock(t) /\ UNCHANGED concOthers
    \/ \E t \in Threads, w \in ConcWindows, p \in 1 .. NumPatterns :
         ConcPutStart(t, w[1], ClientBuffer(p, w[1], w[2])) /\ UNCHANGED concOthers
    \/ \E t \in Threads : ConcPutCheck(t) /\ UNCHANGED concOthers
    \/ \E t \in Threads : ConcPutRead(t) /\ UNCHANGED concOthers
    \/ \E t \in Threads : ConcPutCreate(t) /\ UNCHANGED concOthers
    \/ \E t \in Threads : ConcPutTrunc(t) /\ UNCHANGED concOthers
    \/ \E t \in Threads : ConcPutWrite(t) /\ UNCHANGED concOthers

SpecConc == InitConc /\ [][NextConc]_vars

\* C8: a block file that exists holds a whole block, in every state of
\* every interleaving of block writes with other calls.
C8_NoTornBlockFiles ==
    \A f \in DOMAIN files : Len(files[f]) = Prod(BlockShape)

\* both threads ran get_data and each missed and fetched
BothMissed == \A t \in Threads : th[t].op = "get" /\ th[t].missed # {}

\* C9: when both get_data calls miss and fetch, neither fails, and once
\* both have returned every fetched cuboid's file holds the upstream bytes.
C9_DoubleFetchHarmless ==
    BothMissed =>
        /\ \A t \in Threads : th[t].pc # "panic"
        /\ (\A t \in Threads : th[t].pc = "done") =>
             \A t \in Threads : \A c \in th[t].missed :
                 /\ BlockFile(c) \in DOMAIN files
                 /\ files[BlockFile(c)] =
                      into_raw_vec(relay_get_data(cuboid_start(c), cuboid_stop(c)))

\* C22: an iteration of get_data that finds the block's file but cannot read
\* a whole block from it does not fail the call.
C22_LocalReadFailureIsMiss ==
    [][\A t \in Threads :
         ( /\ th[t].pc = "get_loop"
           /\ \E c \in Ends(th[t].pending) :
                 /\ BlockFile(c) \in DOMAIN files
                 /\ ~from_shape_vec(BlockShape, files[BlockFile(c)]).ok )
         => th'[t].pc # "panic"]_vars

(***************************************************************************)
(* The decomposer alone: inputs drawn from the bounded sets, one call.     *)
(***************************************************************************)

Coords == 0 .. MaxCoord
Sizes == 1 .. MaxSize

InitDecomp ==
    /\ args \in { a \in [start : [x : Coords, y : Coords, z : Coords],
                         stop  : [x : Coords, y : Coords, z : Coords],
                         size  : [x : Sizes, y : Sizes, z : Sizes]] :
                  LeqV(a.start, a.stop) }
    /\ ret = [done |-> FALSE, cuboids |-> <<>>]
    /\ DmIdle
    /\ CmIdle
    /\ ThIdle
    /\ UtIdle

Decompose ==
    /\ ~ret.done
    /\ ret' = [done |-> TRUE,
               cuboids |-> get_cuboids_and_indices(args.start, args.stop, args.size)]
    /\ UNCHANGED <<args, dmVars, cmVars, thVars, utVars>>

NextDecomp == Decompose

SpecDecomp == InitDecomp /\ [][NextDecomp]_vars

\* the voxels of the half-open box [lo, hi)
Box(lo, hi) ==
    { <<x, y, z>> : x \in lo.x .. hi.x - 1, y \in lo.y .. hi.y - 1,
                    z \in lo.z .. hi.z - 1 }

\* an entry's local sub-window mapped back to global coordinates
GlobalBox(c, rng, size) ==
    Box(Vector3(c.x * size.x + rng[1].x, c.y * size.y + rng[1].y,
                c.z * size.z + rng[1].z),
        Vector3(c.x * size.x + rng[2].x, c.y * size.y + rng[2].y,
                c.z * size.z + rng[2].z))

\* C4: the sub-windows returned by get_cuboids_and_indices, mapped back to
\* global coordinates, are pairwise disjoint and their union is exactly the
\* half-open box [start, stop).
C4_DecompositionCoverage ==
    ret.done =>
        LET m == ret.cuboids
        IN  /\ UNION { GlobalBox(c, m[c], args.size) : c \in DOMAIN m }
                 = Box(args.start, args.stop)
            /\ \A c1, c2 \in DOMAIN m :
                 c1 # c2 =>
                   GlobalBox(c1, m[c1], args.size)
                     \cap GlobalBox(c2, m[c2], args.size) = {}

\* C4 witness: a computed decomposition in which two cuboids each hold a
\* non-empty part of the window and the stop lies on a block boundary.
C4_Witness ==
    /\ ret.done
    /\ args.stop.x = 2 * args.size.x
    /\ \E c1, c2 \in DOMAIN ret.cuboids :
         /\ c1 # c2
         /\ GlobalBox(c1, ret.cuboids[c1], args.size) # {}
         /\ GlobalBox(c2, ret.cuboids[c2], args.size) # {}


\* the number of cuboid indices on one axis
AxisCount(start, stop, size) == (stop \div size) - (start \div size) + 1

\* C29: get_cuboids_and_indices returns one entry per cuboid index of the
\* inclusive index box, their number being the product over the axes of
\* floor(stop/S) - floor(start/S) + 1; on an axis with start = stop there is
\* one index and its local range has zero width; a stop on a block boundary
\* still brings in the boundary block floor(stop/S).
C29_DecompositionSize ==
    ret.done =>
        LET m == ret.cuboids
            a == args
        IN  /\ Cardinality(DOMAIN m) =
                  AxisCount(a.start.x, a.stop.x, a.size.x)
                    * AxisCount(a.start.y, a.stop.y, a.size.y)
                    * AxisCount(a.start.z, a.stop.z, a.size.z)
            /\ DOMAIN m =
                  { Vector3(i, j, k) :
                      i \in a.start.x \div a.size.x .. a.stop.x \div a.size.x,
                      j \in a.start.y \div a.size.y .. a.stop.y \div a.size.y,
                      k \in a.start.z \div a.size.z .. a.stop.z \div a.size.z }
            /\ a.start.x = a.stop.x =>
                  \A c \in DOMAIN m :
                     c.x = a.start.x \div a.size.x /\ m[c][1].x = m[c][2].x
            /\ a.start.y = a.stop.y =>
                  \A c \in DOMAIN m :
                     c.y = a.start.y \div a.size.y /\ m[c][1].y = m[c][2].y
            /\ a.start.z = a.stop.z =>
                  \A c \in DOMAIN m :
                     c.z = a.start.z \div a.size.z /\ m[c][1].z = m[c][2].z
            /\ \E c \in DOMAIN m :
                  /\ c.x = a.stop.x \div a.size.x
                  /\ c.y = a.stop.y \div a.size.y
                  /\ c.z = a.stop.z \div a.size.z

\* C29 witness: a decomposition with a zero-width axis, a stop on a block
\* boundary above the start, and more than one entry
C29_Witness ==
    /\ ret.done
    /\ args.start.x = args.stop.x
    /\ args.start.y < args.stop.y /\ args.stop.y % args.size.y = 0
    /\ Cardinality(DOMAIN ret.cuboids) > 1
    /\ \E c \in DOMAIN ret.cuboids :
          c.y = args.stop.y \div args.size.y
            /\ ret.cuboids[c][1].y = ret.cuboids[c][2].y

\* one axis of an entry: the local range is inside the block, and the target
\* range (block origin + local - request origin) is computed without
\* underflow and lies inside the output buffer of length stop - start
AxisOk(index, local_start, local_stop, start, stop, size) ==
    /\ 0 <= local_start /\ local_start <= local_stop /\ local_stop <= size
    /\ index * size + local_start >= start
    /\ index * size + local_stop >= start
    /\ (index * size + local_stop) - start <= stop - start

\* C30: for start <= stop every entry of get_cuboids_and_indices has, on
\* each axis, 0 <= localStart <= localStop <= S, and the target range of the
\* output buffer derived from it needs no negative number and stays inside
\* the buffer.
C30_LocalRangesWellFormed ==
    ret.done =>
        LET m == ret.cuboids
            a == args
        IN  \A c \in DOMAIN m :
              /\ AxisOk(c.x, m[c][1].x, m[c][2].x, a.start.x, a.stop.x, a.size.x)
              /\ AxisOk(c.y, m[c][1].y, m[c][2].y, a.start.y, a.stop.y, a.size.y)
              /\ AxisOk(c.z, m[c][1].z, m[c][2].z, a.start.z, a.stop.z, a.size.z)

\* C30 witness: a window that starts inside one block and stops inside the
\* next one
C30_Witness ==
    /\ ret.done
    /\ \E c, d \in DOMAIN ret.cuboids :
          /\ c.x < d.x
          /\ 0 < ret.cuboids[c][1].x /\ ret.cuboids[c][1].x < ret.cuboids[c][2].x
          /\ 0 < ret.cuboids[d][2].x /\ ret.cuboids[d][2].x < args.size.x

(***************************************************************************)
(* usage_tracker::run, statement by statement.  SENDER_MUTEX is a static   *)
(* mut read and written without synchronisation, so calls made by          *)
(* different threads interleave between the test and the assignment.       *)
(***************************************************************************)

UtCall(c, pc) == [ut EXCEPT !.calls[c].pc = pc]

\* run is entered: it returns at once for UsageTrackerType::None, else it
\* creates the channel
RunEnter(c, kind) ==
    /\ ut.calls[c].pc = "idle"
    /\ \A d \in Calls : d < c => ut.calls[d].pc # "idle"
    /\ ut' = [ut EXCEPT !.calls[c] = [pc |-> IF kind = "None" THEN "done"
                                                               ELSE "check",
                                       kind |-> kind],
                         !.order = Append(ut.order, c)]

\* if SENDER_MUTEX.is_some() { panic!(...) }; the channel of a call that
\* panics is dropped with it
RunCheck(c) ==
    /\ ut.calls[c].pc = "check"
    /\ ut' = IF ut.SENDER_MUTEX # 0
             THEN [ut EXCEPT !.calls[c].pc = "panic", !.gone = ut.gone \cup {c}]
             ELSE UtCall(c, "set")

\* SENDER_MUTEX = Some(Mutex::new(tx)): a sender installed before is dropped
RunSet(c) ==
    /\ ut.calls[c].pc = "set"
    /\ ut' = [ut EXCEPT !.SENDER_MUTEX = c, !.calls[c].pc = "spawn"]

\* thread::spawn of the consumer
RunSpawn(c) ==
    /\ ut.calls[c].pc = "spawn"
    /\ ut' = [ut EXCEPT !.spawned = ut.spawned \cup {c}, !.calls[c].pc = "done"]

\* a consumer whose channel has no sender left leaves its loop
ConsumerEnds(c) ==
    /\ c \in ut.spawned \ ut.gone
    /\ ut.SENDER_MUTEX # c
    /\ ut' = [ut EXCEPT !.gone = ut.gone \cup {c}]

InitRun ==
    /\ ut = NoPipe
    /\ FnIdle
    /\ DmIdle
    /\ CmIdle
    /\ ThIdle

runOthers == <<fnVars, dmVars, cmVars, thVars>>

NextRun ==
    \/ \E c \in Calls, kind \in UsageTrackerType :
         RunEnter(c, kind) /\ UNCHANGED runOthers
    \/ \E c \in Calls : RunCheck(c) /\ UNCHANGED runOthers
    \/ \E c \in Calls : RunSet(c) /\ UNCHANGED runOthers
    \/ \E c \in Calls : RunSpawn(c) /\ UNCHANGED runOthers
    \/ \E c \in Calls : ConsumerEnds(c) /\ UNCHANGED runOthers

SpecRun == InitRun /\ [][NextRun]_vars

\* a call of run that has returned or panicked
RunOver(c) == ut.calls[c].pc \in { "done", "panic" }

\* C13: the first call of run installs the sender and spawns the consumer;
\* every other call panics; the installed sender is never replaced and no
\* second consumer is spawned.
C13_SingleInit ==
    ut.order # << >> =>
        LET first == ut.order[1]
        IN  /\ ut.calls[first].pc = "done" =>
                  (ut.SENDER_MUTEX = first /\ first \in ut.spawned)
            /\ \A c \in Calls \ {first} : RunOver(c) => ut.calls[c].pc = "panic"
            /\ ut.SENDER_MUTEX \in { 0, first }
            /\ ut.spawned \subseteq { first }


\* the calls of run that have assigned their sender to SENDER_MUTEX
Installed == { c \in Calls : ut.calls[c].pc = "spawn" } \cup ut.spawned

\* C35: however the calls of run interleave, at most one of them ever assigns
\* its sender to SENDER_MUTEX and at most one consumer thread is spawned.
C35_AtMostOneConsumer ==
    /\ Cardinality(Installed) <= 1
    /\ Cardinality(ut.spawned) <= 1

(***************************************************************************)
(* The usage pipeline after one call of run: request threads send keys,    *)
(* the consumer thread receives them and hands them to the tracker.        *)
(***************************************************************************)

\* the consumer thread of the installed sender runs its loop
ConsumerAlive == ut.SENDER_MUTEX \in ut.spawned \ ut.gone

\* a request thread's get_sender(), lock() and tx.send(key)
PipeSend(key) ==
    /\ Len(chan) + Len(logged) < MaxLog
    /\ ~get_sender_panics(ut)
    /\ chan' = IF send_is_ok(ut) THEN Append(chan, key) ELSE chan
    /\ UNCHANGED <<rows, num_cuboids, now, remove_calls, logged, remove_failed, cache_roots>>

\* the consumer with the SimpleCacheManager built for UsageTrackerType::Sqlite
SqliteConsume ==
    /\ ConsumerAlive
    /\ ut.calls[ut.SENDER_MUTEX].kind = "Sqlite"
    /\ ConsumeAny

\* the consumer with the ConsoleUsageTracker: log_request prints the key
ConsoleConsume ==
    /\ ConsumerAlive
    /\ ut.calls[ut.SENDER_MUTEX].kind = "Console"
    /\ chan # << >>
    /\ chan' = Tail(chan)
    /\ logged' = Append(logged, Head(chan))
    /\ UNCHANGED <<rows, num_cuboids, now, remove_calls, remove_failed, cache_roots>>

\* the consumer thread panics: usage_manager_factory's expect on the
\* BOSSPHORUS_DB_URL variable, SqliteCacheInterface::new's expects, or an
\* expect on a failed query inside log_request.  The receiver is dropped; the
\* keys left in chan are never received.
ConsumerPanics ==
    /\ ConsumerAlive
    /\ ut.calls[ut.SENDER_MUTEX].kind = "Sqlite"
    /\ ut' = [ut EXCEPT !.gone = ut.gone \cup {ut.SENDER_MUTEX}]

InitDeliver ==
    /\ ut \in { Started("Console"), Started("Sqlite") }
    /\ CmIdle
    /\ ThIdle
    /\ DmIdle
    /\ FnIdle

NextDeliver ==
    \/ \E key \in Keys : PipeSend(key) /\ UNCHANGED <<fnVars, dmVars, thVars, utVars>>
    \/ SqliteConsume /\ UNCHANGED <<fnVars, dmVars, thVars, utVars>>
    \/ ConsoleConsume /\ UNCHANGED <<fnVars, dmVars, thVars, utVars>>
    \/ ConsumerPanics /\ UNCHANGED <<fnVars, dmVars, thVars, cmVars>>

\* the consumer thread, while it lives, is scheduled
SpecDeliver ==
    /\ InitDeliver
    /\ [][NextDeliver]_vars
    /\ WF_vars((SqliteConsume \/ ConsoleConsume) /\ UNCHANGED <<fnVars, dmVars, thVars, utVars>>)

\* the keys sent successfully so far, in order
Accepted == logged \o chan

IsPrefix(a, b) == Len(a) <= Len(b) /\ SubSeq(b, 1, Len(a)) = a

\* C14: after a run that returned, every key whose send succeeded is in the
\* end passed to log_request, once, and in the order of the sends: the keys
\* logged are always the first of the keys accepted, and the n-th key accepted
\* is eventually the n-th key logged.
C14_Delivery ==
    /\ [][IsPrefix(Accepted, Accepted') /\ IsPrefix(logged, logged')]_vars
    /\ \A n \in 1 .. MaxLog : (Len(Accepted) >= n) ~> (Len(logged) >= n)


(***************************************************************************)
(* Reads of a data manager built with track_usage = true, with the usage   *)
(* pipeline started or not, and a consumer thread that may panic.          *)
(***************************************************************************)

InitPipe ==
    /\ files = <<>>
    /\ req = [t \in {1} |-> IdleReq]
    /\ prev = [t \in {1} |-> Summary(IdleReq)]
    /\ connected = TRUE
    /\ nreq = 0
    /\ track_usage = TRUE
    /\ hist = NoHist
    /\ ut \in { NoPipe, Started("Sqlite") }
    /\ FnIdle
    /\ CmIdle
    /\ ThIdle

NextPipe ==
    \/ \E w \in TrackWindows :
         GetStart(1, w[1], w[2]) /\ UNCHANGED <<fnVars, cmVars, thVars, utVars>>
    \/ GetSend(1) /\ UNCHANGED <<fnVars, cmButChan, thVars, utVars>>
    \/ GetBlockHit(1) /\ UNCHANGED <<fnVars, cmVars, thVars, utVars>>
    \/ GetBlockMiss(1) /\ UNCHANGED <<fnVars, cmVars, thVars, utVars>>
    \/ ConsumerAlive /\ TrackConsume /\ UNCHANGED <<fnVars, thVars, utVars>>
    \/ ConsumerPanics /\ UNCHANGED <<fnVars, dmVars, cmVars, thVars>>

SpecPipe == InitPipe /\ [][NextPipe]_vars

\* request t is about to publish the key of its next block
Publishing(t) ==
    /\ track_usage
    /\ req[t].op = "get" /\ req[t].status = "run"
    /\ req[t].sent = {}
    /\ req'[t] # req[t]

\* the step leaves the read as it was, its loop about to handle the block
ReadGoesOn(t) ==
    /\ req'[t].status = "run"
    /\ req'[t].sent # {}
    /\ req'[t] = [req[t] EXCEPT !.sent = req'[t].sent]
    /\ files' = files

MaxRows == 3

KeyOf(i) == CUBOID_ROOT_PATH \o << "/", "coll/exp/chan", "/", i >>

\* row i of the table, kept under cache root `root`
EvictRow(i, root) ==
    [id |-> i, cache_root |-> root, cube_key |-> remainder_of(KeyOf(i)),
     requests |-> 1, created |-> 0, last_accessed |-> 0]

\* the lists of different row numbers
Picks ==
    { p \in UNION { [1 .. n -> 1 .. MaxRows] : n \in 0 .. MaxRows } : Distinct(p) }

InitEvict ==
    /\ \E roots \in [1 .. MaxRows -> { cache_root_id, cache_root_id + 1 }],
          p \in Picks,
          failing \in SUBSET { KeyOf(i) : i \in 1 .. MaxRows },
          db_failing \in SUBSET (1 .. MaxRows) :
         args = [rows |-> { EvictRow(i, roots[i]) : i \in 1 .. MaxRows },
                 unwanted |-> [k \in DOMAIN p |-> EvictRow(p[k], roots[p[k]])],
                 failing |-> failing,
                 db_failing |-> db_failing]
    /\ ret = [done |-> FALSE]
    /\ DmIdle
    /\ CmIdle
    /\ ThIdle
    /\ UtIdle

Evict ==
    /\ ~ret.done
    /\ ret' = [done |-> TRUE,
               cleaned |-> clean_cache_steps(args.rows, args.unwanted,
                                             args.failing, args.db_failing)]
    /\ UNCHANGED <<args, dmVars, cmVars, thVars, utVars>>

NextEvict == Evict

SpecEvict == InitEvict /\ [][NextEvict]_vars

\* clean_cache reaches the removal calls for the record
Handled(c) == get_cache_root_path_from_map(c.cache_root).is_some

\* both removals of the record succeed
BothOk(c) ==
    /\ Handled(c)
    /\ cuboid_path(c) \notin args.failing
    /\ c.id \notin args.db_failing

\* C18: clean_cache calls the file remover once for every record it handles,
\* in the order of the list and whatever failed before; it calls
\* remove_cuboid_entry for a record only directly after that record's file
\* was removed; the rows deleted are those of the records with both calls
\* succeeding, and the number returned is the number of these records.
C18_EvictOrderAndCount ==
    ret.done =>
        LET ev == ret.cleaned.events
            files_at == { k \in DOMAIN ev : ev[k].step = "remove_cuboid_file" }
            handled == { i \in DOMAIN args.unwanted : Handled(args.unwanted[i]) }
            good == { i \in DOMAIN args.unwanted : BothOk(args.unwanted[i]) }
        IN  /\ Cardinality(files_at) = Cardinality(handled)
            /\ \A i, j \in handled : i < j =>
                  \E k, l \in files_at :
                     /\ k < l
                     /\ ev[k].id = args.unwanted[i].id
                     /\ ev[l].id = args.unwanted[j].id
            /\ \A k \in files_at :
                  /\ ev[k].ok <=> ev[k].path \notin args.failing
                  /\ ev[k].ok <=>
                        /\ k + 1 \in DOMAIN ev
                        /\ ev[k + 1].step = "remove_cuboid_entry"
                        /\ ev[k + 1].id = ev[k].id
            /\ \A k \in DOMAIN ev \ files_at :
                  /\ k - 1 \in files_at
                  /\ ev[k].ok <=> ev[k].id \notin args.db_failing
            /\ ret.cleaned.rows = args.rows \ { args.unwanted[i] : i \in good }
            /\ ret.cleaned.remove_count = Cardinality(good)
            /\ args.db_failing = {} =>
                  LET cc == clean_cache(args.rows, args.unwanted, args.failing)
                  IN  /\ cc.rows = ret.cleaned.rows
                      /\ cc.remove_count = ret.cleaned.remove_count

\* three records: the first one's file cannot be removed, the second one's
\* row cannot be deleted, the third is removed and counted
C18_Witness ==
    /\ ret.done
    /\ Len(args.unwanted) = 3
    /\ \A i \in 1 .. 3 : Handled(args.unwanted[i])
    /\ cuboid_path(args.unwanted[1]) \in args.failing
    /\ cuboid_path(args.unwanted[2]) \notin args.failing
    /\ args.unwanted[2].id \in args.db_failing
    /\ BothOk(args.unwanted[3])
    /\ ret.cleaned.remove_count = 1


(***************************************************************************)
(* MaxCountLruStrategy on its own, as its unit tests drive it.             *)
(***************************************************************************)

\* the largest counter value followed
MaxCount == 7

InitStrategy ==
    /\ args = [num_cuboids |-> 0]
    /\ ret = [op |-> "new", num |-> 0, before |-> 0, ready |-> FALSE]
    /\ DmIdle
    /\ CmIdle
    /\ ThIdle
    /\ UtIdle

StratAdd(num) ==
    /\ args.num_cuboids + num <= MaxCount
    /\ args' = [num_cuboids |-> add(args.num_cuboids, num)]
    /\ ret' = [op |-> "add", num |-> num, before |-> args.num_cuboids,
               ready |-> FALSE]

StratSub(num) ==
    /\ args' = [num_cuboids |-> sub(args.num_cuboids, num)]
    /\ ret' = [op |-> "sub", num |-> num, before |-> args.num_cuboids,
               ready |-> FALSE]

StratReady ==
    /\ ret' = [op |-> "ready", num |-> 0, before |-> args.num_cuboids,
               ready |-> ready_for_cleaning(args.num_cuboids)]
    /\ UNCHANGED args

\* select_cuboids_for_removal with a finder that has k rows
StratSelect(k) ==
    /\ ret' = [op |-> "select", num |-> k, before |-> args.num_cuboids,
               ready |-> FALSE,
               victims |-> select_cuboids_for_removal(
                              args.num_cuboids,
                              { EvictRow(i, cache_root_id) : i \in 1 .. k })]
    /\ UNCHANGED args

NextStrategy ==
    \/ \E k \in 0 .. MaxRows :
         StratSelect(k) /\ UNCHANGED <<dmVars, cmVars, thVars, utVars>>
    \/ \E num \in 1 .. MaxCount :
         StratAdd(num) /\ UNCHANGED <<dmVars, cmVars, thVars, utVars>>
    \/ \E num \in 0 .. MaxCount + 1 :
         StratSub(num) /\ UNCHANGED <<dmVars, cmVars, thVars, utVars>>
    \/ StratReady /\ UNCHANGED <<dmVars, cmVars, thVars, utVars>>

SpecStrategy == InitStrategy /\ [][NextStrategy]_vars

\* C19: after sub(m) the counter is 0 when m exceeded it and the difference
\* otherwise; it is never negative and never above what it was.
C19_CounterSaturation ==
    /\ args.num_cuboids >= 0
    /\ ret.op = "sub" =>
          /\ ret.num > ret.before => args.num_cuboids = 0
          /\ ret.num <= ret.before => args.num_cuboids = ret.before - ret.num
          /\ args.num_cuboids <= ret.before

\* a sub of more than the counter held, the counter not being 0
C19_Witness ==
    /\ ret.op = "sub"
    /\ ret.before > 0
    /\ ret.num > ret.before
    /\ args.num_cuboids = 0

\* C20: ready_for_cleaning is true exactly when the counter exceeds
\* max_cuboids: false at max_cuboids, true at max_cuboids + 1.
C20_ReadyStrict ==
    ret.op = "ready" =>
        /\ ret.before <= max_cuboids => ~ret.ready
        /\ ret.before >= max_cuboids + 1 => ret.ready

\* the question was asked with the counter at max_cuboids
C20_Witness ==
    /\ ret.op = "ready"
    /\ ret.before = max_cuboids
    /\ ~ret.ready


\* C21: select_cuboids_for_removal returns nothing while the counter is at
\* most max_cuboids; above it, it returns what find_lru gives for exactly
\* counter - max_cuboids victims: that many rows when the finder has them,
\* else all the finder has.
C21_SelectVictims ==
    ret.op = "select" =>
        LET excess == ret.before - max_cuboids
            table == { EvictRow(i, cache_root_id) : i \in 1 .. ret.num }
        IN  /\ ret.before <= max_cuboids => ret.victims = << >>
            /\ ret.before > max_cuboids =>
                  /\ ret.victims = find_lru(table, excess)
                  /\ Len(ret.victims) = IF excess <= ret.num THEN excess
                                                               ELSE ret.num

\* the counter exceeds max_cuboids by two and the finder has three rows
C21_Witness ==
    /\ ret.op = "select"
    /\ ret.before = max_cuboids + 2
    /\ ret.num = 3
    /\ Len(ret.victims) = 2


(***************************************************************************)
(* SqliteCacheInterface::log_request on a database that also holds rows    *)
(* of another cache root (the same database used from another directory).  *)
(***************************************************************************)

\* row i of cache root `root`, with an id of its own
LogRow(i, root) ==
    [EvictRow(i, root) EXCEPT !.id = i + MaxRows * (root - cache_root_id)]

InitLog ==
    /\ \E table \in SUBSET { LogRow(i, root) :
                                i \in 1 .. MaxRows,
                                root \in { cache_root_id, cache_root_id + 1 } },
          i \in 1 .. MaxRows :
         args = [rows |-> table, key |-> KeyOf(i)]
    /\ ret = [done |-> FALSE]
    /\ DmIdle
    /\ CmIdle
    /\ ThIdle
    /\ UtIdle

LogOnce ==
    /\ ~ret.done
    /\ ret' = [done |-> TRUE, res |-> sqlite_log_request(args.rows, args.key, 1)]
    /\ UNCHANGED <<args, dmVars, cmVars, thVars, utVars>>

NextLog == LogOnce

SpecLog == InitLog /\ [][NextLog]_vars

\* the rows of key under the interface's own cache root
OwnRows(rs, key) == { r \in RowsOf(rs, key) : r.cache_root = cache_root_id }

\* C23: log_request leaves every row of another cache root as it was, and
\* afterwards the interface's own cache root has exactly one row for the key:
\* the earlier one with requests one higher, or a new one with requests = 1.
C23_LogMatchesRootAndKey ==
    ret.done =>
        LET old == OwnRows(args.rows, args.key)
            new == OwnRows(ret.res.rows, args.key)
        IN  /\ { r \in ret.res.rows : r.cache_root # cache_root_id } =
                  { r \in args.rows : r.cache_root # cache_root_id }
            /\ Cardinality(new) = 1
            /\ old = {} => (ret.res.created /\ \A r \in new : r.requests = 1)
            /\ \A o \in old : \A r \in new : r.requests = o.requests + 1


(***************************************************************************)
(* The cache manager evicting through RealFileRemover: keys are sent for   *)
(* blocks whose files exist and for blocks whose files do not (get_data    *)
(* sends the key before it looks for the file).                            *)
(***************************************************************************)

InitSweep ==
    /\ \E present \in SUBSET Keys : files = [f \in present |-> << >>]
    /\ req = <<>> /\ prev = <<>> /\ connected = TRUE /\ nreq = 0
    /\ track_usage = TRUE
    /\ hist = NoHist
    /\ ut = Started("Sqlite")
    /\ FnIdle
    /\ CmIdle
    /\ ThIdle

NextSweep ==
    \/ \E key \in Keys : Send(key) /\ UNCHANGED <<fnVars, dmVars, thVars, utVars>>
    \/ TrackConsume /\ UNCHANGED <<fnVars, thVars, utVars>>

SpecSweep == InitSweep /\ [][NextSweep]_vars

\* C24: when the consumer's eviction hands a record to the remover whose file
\* is already missing, the record's row is deleted all the same and the
\* record is counted as removed.
C24_MissingFileIsRemoved ==
    [][LET first == Len(remove_calls) + 1
           last == Len(remove_calls')
       IN  \A i \in first .. last :
              remove_calls'[i] \notin DOMAIN files =>
                 /\ remove_calls'[i] \notin { cuboid_path(r) : r \in rows' }
                 /\ num_cuboids' = num_cuboids + 1 - (last - first + 1)]_vars


\* the paths handed to the file remover by the step
NewCalls == { remove_calls'[i] : i \in Len(remove_calls) + 1 .. Len(remove_calls') }

\* C33: when the consumer logs a key that has a row, the step changes that
\* row's requests and last_accessed and nothing else: the counter, the other
\* rows and the block files stay and the remover is not called.  When a step
\* does hand rows to the remover, every row last accessed before one of them
\* is handed over too, so a refreshed key goes after all older ones.
C33_RepeatedAccessKeepsAll ==
    [][Len(logged') = Len(logged) + 1 =>
         LET key == Head(chan)
             old == RowsOf(rows, key)
         IN  /\ old # {} =>
                   /\ num_cuboids' = num_cuboids
                   /\ files' = files
                   /\ remove_calls' = remove_calls
                   /\ rows' \ RowsOf(rows', key) = rows \ old
                   /\ \A o \in old :
                         RowsOf(rows', key) =
                            { [o EXCEPT !.requests = o.requests + 1,
                                        !.last_accessed = now'] }
             /\ \A v \in rows : \A r \in rows :
                   ( /\ cuboid_path(v) \in NewCalls
                     /\ r.last_accessed < v.last_accessed )
                   => cuboid_path(r) \in NewCalls]_vars

\* C33 witness: a key was logged, another one after it, the first again, and
\* then the second was handed to the remover while the first kept its row
C33_Witness ==
    /\ Len(logged) >= 4
    /\ logged[1] = logged[3] /\ logged[1] # logged[2]
    /\ remove_calls = << logged[2] >>
    /\ \E r \in RowsOf(rows, logged[1]) : r.requests = 2
    /\ logged[1] \in DOMAIN files

\* C37: a row made by logging a path under the active cache root gives that
\* path back (root path of its cache root, then its cube_key), and every
\* path the file remover is called with is, exactly, a path that was logged.
C37_PathRoundTrip ==
    /\ \A r \in rows :
          /\ r.cache_root = cache_root_id
          /\ cuboid_path(r) \in Range(logged)
          /\ r.cube_key = remainder_of(cuboid_path(r))
    /\ \A key \in Range(logged) : \A r \in RowsOf(rows, key) : cuboid_path(r) = key
    /\ Range(remove_calls) \subseteq Range(logged)

\* C37 witness: the first two keys logged were evicted in turn, their files
\* were there and are gone with their rows
C37_Witness ==
    /\ Len(remove_calls) = 2
    /\ remove_calls[1] = logged[1] /\ remove_calls[2] = logged[2]
    /\ logged[1] # logged[2]
    /\ RowsOf(rows, logged[1]) = {} /\ RowsOf(rows, logged[2]) = {}
    /\ ~remove_failed
    /\ DOMAIN files # {}

(***************************************************************************)
(* get_data as a function of the block store, the window and the order in  *)
(* which the HashMap of the decomposition is iterated.                     *)
(***************************************************************************)

\* get_data before its loop
get_data_begin(origin, destination) ==
    LET cuboids == get_cuboids_and_indices(origin, destination, cuboid_size)
    IN  [op |-> "get", status |-> "run", origin |-> origin,
         destination |-> destination, data |-> NoArray,
         cuboids |-> cuboids, pending |-> DOMAIN cuboids, sent |-> {},
         large_array |-> zeros(<< destination.z - origin.z,
                                  destination.y - origin.y,
                                  destination.x - origin.x >>),
         fetches |-> 0]

\* get_data's loop over the entries in the given order, the next layer
\* answering every fetch
RECURSIVE get_data_loop(_, _, _)
get_data_loop(fs, r, order) ==
    IF order = << >> \/ r.status # "run"
    THEN [files |-> fs, status |-> r.status, large_array |-> r.large_array]
    ELSE LET c == Head(order)
         IN  IF BlockFile(c) \in DOMAIN fs
             THEN LET a == from_shape_vec(BlockShape, fs[BlockFile(c)])
                  IN  get_data_loop(fs,
                                    IF a.ok THEN GetAssign(r, c, a.array, FALSE)
                                    ELSE Panicked(r),
                                    Tail(order))
             ELSE LET array == relay_get_data(cuboid_start(c), cuboid_stop(c))
                  IN  get_data_loop(write_back(fs, c, array),
                                    GetAssign(r, c, array, TRUE),
                                    Tail(order))

\* the orders in which a HashMap with these keys can be iterated
Orders(S) == { s \in [1 .. Cardinality(S) -> S] : Range(s) = S }

\* block stores a server can hold: empty, or after one miss was written back
Stores ==
    {<< >>} \cup
    { write_back(<< >>, c, relay_get_data(cuboid_start(c), cuboid_stop(c))) :
        c \in { Vector3(x, 0, 0) : x \in 0 .. 1 } }

InitOrder ==
    /\ \E w \in Windows, fs \in Stores :
          \E a, b \in Orders(DOMAIN get_cuboids_and_indices(w[1], w[2], cuboid_size)) :
             args = [files |-> fs, origin |-> w[1], destination |-> w[2],
                     first |-> a, second |-> b]
    /\ ret = [done |-> FALSE]
    /\ DmIdle
    /\ CmIdle
    /\ ThIdle
    /\ UtIdle

GetInOrders ==
    /\ ~ret.done
    /\ LET r == get_data_begin(args.origin, args.destination)
       IN  ret' = [done |-> TRUE,
                   first |-> get_data_loop(args.files, r, args.first),
                   second |-> get_data_loop(args.files, r, args.second)]
    /\ UNCHANGED <<args, dmVars, cmVars, thVars, utVars>>

NextOrder == GetInOrders

SpecOrder == InitOrder /\ [][NextOrder]_vars

\* C25: the array get_data returns and the block files it leaves on disk are
\* the same for every order in which the entries of the decomposition are
\* iterated, for every window and every block store it starts from.
C25_OrderIndependent ==
    ret.done => ret.first = ret.second


(***************************************************************************)
(* The cache manager with a database and a file remover that may fail at   *)
(* every call: the update and the insert of log_request, the removal of a  *)
(* file, the deletion of a row.                                            *)
(***************************************************************************)

\* SqliteCacheInterface::log_request, the update or the insert returning Err
sqlite_log_request_faulty(rs, key, ts, update_err, insert_err) ==
    LET res == sqlite_log_request(rs, key, ts)
    IN  IF update_err THEN [rows |-> rs, created |-> FALSE]
        ELSE IF res.created /\ insert_err THEN [rows |-> rs, created |-> FALSE]
        ELSE res

\* SimpleCacheManager::log_request with the faults f
log_request_faulty(rs, size, key, ts, f) ==
    LET logd == sqlite_log_request_faulty(rs, key, ts, f.update_err, f.insert_err)
    IN  IF ~logd.created
        THEN [rows |-> logd.rows, size |-> size, events |-> << >>, cleaned |-> FALSE]
        ELSE LET added == add(size, 1)
             IN  IF ~ready_for_cleaning(added)
                 THEN [rows |-> logd.rows, size |-> added, events |-> << >>,
                       cleaned |-> FALSE]
                 ELSE LET cuboids == select_cuboids_for_removal(added, logd.rows)
                          cleaned == clean_cache_steps(logd.rows, cuboids,
                                                       f.failing, f.db_failing)
                      IN  [rows |-> cleaned.rows,
                           size |-> sub(added, cleaned.remove_count),
                           events |-> cleaned.events,
                           cleaned |-> TRUE]

\* the faults one log_request can meet on the table rs
Faults(rs) ==
    [update_err : BOOLEAN, insert_err : BOOLEAN,
     failing : SUBSET { cuboid_path(r) : r \in rs },
     db_failing : SUBSET { r.id : r \in rs }]

\* the paths of the file remover's calls among the events
FileCalls(events) ==
    LET idx == { i \in DOMAIN events : events[i].step = "remove_cuboid_file" }
        RECURSIVE take(_)
        take(i) == IF i > Len(events) THEN << >>
                   ELSE IF i \in idx THEN << events[i].path >> \o take(i + 1)
                   ELSE take(i + 1)
    IN  take(1)

InitCount ==
    /\ CmIdle
    /\ ThIdle
    /\ UtIdle
    /\ DmIdle
    /\ FnIdle

\* the consumer logs one key
LogFaulty(key, ts, f) ==
    /\ Len(logged) < MaxLog
    /\ LET r == log_request_faulty(rows, num_cuboids, key, ts, f)
       IN  /\ rows' = r.rows
           /\ num_cuboids' = r.size
           /\ remove_calls' = remove_calls \o FileCalls(r.events)
           /\ remove_failed' =
                (remove_failed \/ \E i \in DOMAIN r.events : ~r.events[i].ok)
    /\ logged' = Append(logged, key)
    /\ now' = ts
    /\ UNCHANGED <<chan, cache_roots>>

NextCount ==
    \E key \in Keys, ts \in Times :
       \E f \in Faults(rows) :
          LogFaulty(key, ts, f) /\ UNCHANGED <<fnVars, dmVars, thVars, utVars>>

SpecCount == InitCount /\ [][NextCount]_vars

\* C31: started on an empty table with counter 0, after every log_request of
\* the cache manager the strategy's counter equals the number of rows of the
\* cuboids table, whatever updates, inserts, file removals and row deletions
\* failed on the way.
C31_CounterTracksRows ==
    num_cuboids = Cardinality(rows)

\* C31 witness: a key was logged without getting a row (its insert failed), a
\* record handed to the remover is still in the table, and the counter is
\* above the maximum
C31_Witness ==
    /\ \E key \in Range(logged) :
          RowsOf(rows, key) = {} /\ key \notin Range(remove_calls)
    /\ \E r \in rows : cuboid_path(r) \in Range(remove_calls)
    /\ num_cuboids > max_cuboids


(***************************************************************************)
(* A restart: usage_manager_factory builds a new MaxCountLruStrategy, whose *)
(* counter is 0, on a cuboids table that holds the rows of the run before. *)
(* The consumer then logs keys that have no row.                           *)
(***************************************************************************)

\* the keys of the blocks a restarted server may be asked for
RestartKeys == { KeyOf(i) : i \in 1 .. MaxRows + max_cuboids }

InitRestart ==
    /\ \E k \in 0 .. MaxRows : rows = { EvictRow(i, cache_root_id) : i \in 1 .. k }
    /\ num_cuboids = 0
    /\ chan = << >> /\ now = 0 /\ remove_calls = << >> /\ logged = << >>
    /\ remove_failed = FALSE
    /\ cache_roots = {}
    /\ ThIdle
    /\ UtIdle
    /\ DmIdle
    /\ FnIdle

\* the consumer logs a key that has no row, every database call and file
\* removal succeeding
LogNew ==
    /\ Len(logged) < MaxLog
    /\ \E key \in RestartKeys, ts \in Times :
         /\ RowsOf(rows, key) = {}
         /\ LET r == log_request(rows, num_cuboids, key, ts, {})
            IN  /\ rows' = r.rows
                /\ num_cuboids' = r.size
                /\ remove_calls' = remove_calls \o r.calls
         /\ logged' = Append(logged, key)
         /\ now' = ts
    /\ UNCHANGED <<chan, remove_failed, cache_roots>>

NextRestart == LogNew /\ UNCHANGED <<fnVars, dmVars, thVars, utVars>>

\* the consumer is scheduled while keys arrive
SpecRestart ==
    /\ InitRestart
    /\ [][NextRestart]_vars
    /\ WF_vars(NextRestart)

LoopKeys == { KeyOf(i) : i \in 1 .. max_cuboids + 1 }

NoConsumer == [pc |-> "recv", queue |-> << >>, key |-> << >>, size |-> 0]

\* the consumer thread of call c runs
Running(c) == c \in ut.spawned \ ut.gone

\* the number of keys sent so far (chan lists the sends, in order)
SentSoFar == Len(chan)

\* a request thread's get_sender().lock().unwrap().send(key): the key goes to
\* the channel of the sender installed at that moment; chan lists the sends
LoopSend(key) ==
    /\ SentSoFar < MaxLog
    /\ ~get_sender_panics(ut)
    /\ chan' = Append(chan, key)
    /\ th' = IF send_is_ok(ut)
             THEN [th EXCEPT ![ut.SENDER_MUTEX].queue = Append(@, key)]
             ELSE th
    /\ UNCHANGED <<rows, num_cuboids, now, remove_calls, logged, remove_failed, cache_roots, ut>>

\* rx yields the next key
LoopRecv(c) ==
    /\ Running(c)
    /\ th[c].pc = "recv" /\ th[c].queue # << >>
    /\ th' = [th EXCEPT ![c].pc = "log_request", ![c].key = Head(th[c].queue),
                        ![c].queue = Tail(th[c].queue)]
    /\ UNCHANGED <<cmVars, ut>>

\* usage_mgr.log_request(key), first half: self.db.borrow_mut().log_request(key)
\* (the ConsoleUsageTracker prints the key and is done)
LoopLog(c) ==
    /\ Running(c)
    /\ th[c].pc = "log_request"
    /\ \E ts \in Times :
         LET res == IF ut.calls[c].kind = "Sqlite"
                    THEN sqlite_log_request(rows, th[c].key, ts)
                    ELSE [rows |-> rows, created |-> FALSE]
         IN  /\ rows' = res.rows
             /\ now' = ts
             /\ th' = [th EXCEPT ![c].pc = IF res.created THEN "strategy"
                                                          ELSE "recv"]
    /\ logged' = Append(logged, th[c].key)
    /\ UNCHANGED <<chan, num_cuboids, remove_calls, remove_failed, cache_roots, ut>>

\* usage_mgr.log_request(key), second half: strategy.add(1) and, if ready
\* for cleaning, select_cuboids_for_removal, clean_cache and strategy.sub
LoopStrategy(c) ==
    /\ Running(c)
    /\ th[c].pc = "strategy"
    /\ LET added == add(th[c].size, 1)
           cleaned == clean_cache(rows, select_cuboids_for_removal(added, rows), {})
       IN  IF ready_for_cleaning(added)
           THEN /\ rows' = cleaned.rows
                /\ remove_calls' = remove_calls \o cleaned.calls
                /\ th' = [th EXCEPT ![c].pc = "recv",
                                    ![c].size = sub(added, cleaned.remove_count)]
           ELSE /\ rows' = rows
                /\ remove_calls' = remove_calls
                /\ th' = [th EXCEPT ![c].pc = "recv", ![c].size = added]
    /\ UNCHANGED <<chan, num_cuboids, now, logged, remove_failed, cache_roots, ut>>

\* rx's iterator ends: the queue is empty and the channel's only sender (the
\* one run moved into SENDER_MUTEX) has been dropped
LoopEnds(c) ==
    /\ Running(c)
    /\ th[c].pc = "recv" /\ th[c].queue = << >>
    /\ ut.SENDER_MUTEX # c
    /\ ut' = [ut EXCEPT !.gone = ut.gone \cup {c}]
    /\ UNCHANGED <<cmVars, th>>

InitLoop ==
    /\ ut = NoPipe
    /\ th = [c \in Calls |-> NoConsumer]
    /\ CmIdle
    /\ DmIdle
    /\ FnIdle

loopOthers == <<fnVars, dmVars>>

NextLoop ==
    \/ \E c \in Calls, kind \in { "Console", "Sqlite" } :
         RunEnter(c, kind) /\ UNCHANGED <<loopOthers, cmVars, thVars>>
    \/ \E c \in Calls : RunCheck(c) /\ UNCHANGED <<loopOthers, cmVars, thVars>>
    \/ \E c \in Calls : RunSet(c) /\ UNCHANGED <<loopOthers, cmVars, thVars>>
    \/ \E c \in Calls : RunSpawn(c) /\ UNCHANGED <<loopOthers, cmVars, thVars>>
    \/ \E key \in LoopKeys : LoopSend(key) /\ UNCHANGED loopOthers
    \/ \E c \in Calls : LoopRecv(c) /\ UNCHANGED loopOthers
    \/ \E c \in Calls : LoopLog(c) /\ UNCHANGED loopOthers
    \/ \E c \in Calls : LoopStrategy(c) /\ UNCHANGED loopOthers
    \/ \E c \in Calls : LoopEnds(c) /\ UNCHANGED loopOthers

SpecLoop == InitLoop /\ [][NextLoop]_vars

\* the consumers that are inside log_request
InLogRequest ==
    { c \in Calls : th[c].pc # "recv" /\ ut.calls[c].kind = "Sqlite" }

\* C34: the cuboids table and a strategy's counter change only in a step of
\* a consumer thread that is inside log_request, and at most one log_request
\* is in progress at any time: the handling of a key is finished before
\* another key is taken.
C34_ConsumerExclusive ==
    /\ [](Cardinality(InLogRequest) <= 1)
    /\ [][(rows' # rows \/ \E c \in Calls : th'[c].size # th[c].size) =>
             \E c \in Calls : th[c].pc # "recv" /\ th'[c] # th[c]]_vars


(***************************************************************************)
(* The sender lock.  get_data's publishing block is                        *)
(*     let mutex = usage_tracker::get_sender();                            *)
(*     let tx = mutex.lock().unwrap();                                     *)
(*     if !tx.send(filename.to_string()).is_ok() { }                       *)
(* and the guard tx is dropped at the block's end.  th.lock is the thread  *)
(* that holds the Mutex (0: free), th.pc[t] where request thread t is,     *)
(* th.left[t] how many entries its loop still has, th.started the entries  *)
(* of all calls so far.  The block's read or fetch is one step here.       *)
(***************************************************************************)

\* a channel made by mpsc::sync_channel(1): a send waits while a key is queued
channel_full_sync(queue) == Len(queue) >= 1

\* a send has to wait for room: never, the channel of mpsc::channel() is
\* unbounded
channel_full(queue) == FALSE

\* get_data enters its loop with n entries
LockStart(t, n) ==
    /\ th.pc[t] \in { "idle", "done" }
    /\ th.started + n <= MaxLog
    /\ th' = [th EXCEPT !.pc[t] = "lock", !.left[t] = n, !.started = @ + n]
    /\ UNCHANGED <<cmVars, ut>>

\* mutex.lock() returns
LockAcquire(t) ==
    /\ th.pc[t] = "lock"
    /\ ~get_sender_panics(ut)
    /\ th.lock = 0
    /\ th' = [th EXCEPT !.lock = t, !.pc[t] = "send"]
    /\ UNCHANGED <<cmVars, ut>>

\* tx.send(..) returns, Ok or Err, and the guard is dropped
LockSend(t) ==
    /\ th.pc[t] = "send"
    /\ ~(send_is_ok(ut) /\ channel_full(chan))
    /\ chan' = IF send_is_ok(ut) THEN Append(chan, KeyOf(th.left[t])) ELSE chan
    /\ th' = [th EXCEPT !.lock = 0, !.pc[t] = "block"]
    /\ UNCHANGED <<rows, num_cuboids, now, remove_calls, logged, remove_failed, cache_roots, ut>>

\* the rest of the iteration: the block is read, or fetched and written back
LockBlock(t) ==
    /\ th.pc[t] = "block"
    /\ th' = [th EXCEPT !.left[t] = @ - 1,
                        !.pc[t] = IF th.left[t] = 1 THEN "done" ELSE "lock"]
    /\ UNCHANGED <<cmVars, ut>>

\* a step of request thread t inside get_data
LockThread(t) == LockAcquire(t) \/ LockSend(t) \/ LockBlock(t)

InitLock ==
    /\ th = [lock |-> 0, pc |-> [t \in Threads |-> "idle"],
             left |-> [t \in Threads |-> 0], started |-> 0]
    /\ ut = Started("Sqlite")
    /\ CmIdle
    /\ DmIdle
    /\ FnIdle

NextLock ==
    \/ \E t \in Threads, n \in 1 .. 2 : LockStart(t, n) /\ UNCHANGED <<fnVars, dmVars>>
    \/ \E t \in Threads : LockAcquire(t) /\ UNCHANGED <<fnVars, dmVars>>
    \/ \E t \in Threads : LockSend(t) /\ UNCHANGED <<fnVars, dmVars>>
    \/ \E t \in Threads : LockBlock(t) /\ UNCHANGED <<fnVars, dmVars>>
    \/ SqliteConsume /\ UNCHANGED <<fnVars, dmVars, thVars, utVars>>
    \/ ConsumerPanics /\ UNCHANGED <<fnVars, dmVars, cmVars, thVars>>

\* the request threads are scheduled; nothing is assumed of the consumer
SpecLock ==
    /\ InitLock
    /\ [][NextLock]_vars
    /\ \A t \in Threads : WF_vars(LockThread(t) /\ UNCHANGED <<fnVars, dmVars>>)

\* C36: the sender lock is held only by a thread that is at its send; a
\* thread waiting for the lock waits for such a thread only; the send itself
\* is always possible, whatever the consumer does; and so every get_data that
\* entered its loop finishes it, also when the consumer never takes a key
\* again or has ended.
C36_NeverWaitsForConsumer ==
    /\ [](\A t \in Threads :
            /\ th.lock = t <=> th.pc[t] = "send"
            /\ th.pc[t] = "send" => ~(send_is_ok(ut) /\ channel_full(chan)))
    /\ \A t \in Threads : (th.pc[t] = "lock") ~> (th.pc[t] = "done")

\* C36 witness: a thread finished its loop although the keys of both threads
\* are still queued and the consumer has ended
C36_Witness ==
    /\ ~ConsumerAlive
    /\ Len(chan) >= 2
    /\ th.pc[1] = "done" /\ th.pc[2] = "send"

(***************************************************************************)
(* The cache_roots table: SqliteCacheInterface::init run again and again   *)
(* on one database, from working directories of which one is a link to     *)
(* another.                                                                *)
(***************************************************************************)

\* the working directories a server is started from
Dirs == {"/srv/a", "/srv/b", "/srv/link"}

\* fs::canonicalize follows links: /srv/link points at /srv/a
canonicalize(dir) == IF dir = "/srv/link" THEN "/srv/a" ELSE dir

\* config::get_cuboid_root_abs_path in a process whose working directory is dir
get_cuboid_root_abs_path(dir) == << canonicalize(dir), "/" >> \o CUBOID_ROOT_PATH

\* a root another program wrote into the table, as the repository's tests do
ForeignRoot == << "/tmp", "/" >> \o CUBOID_ROOT_PATH

MaxInits == 4

\* the id the table gives an inserted NewCacheRoot
next_root_id(table) ==
    IF table = {} THEN 1
    ELSE 1 + (CHOOSE m \in { r.id : r \in table } : \A r \in table : r.id <= m)

\* cache_roots.filter(path.eq(abs)).get_result: the first matching row
first_root(table, abs) ==
    LET found == { r \in table : r.path = abs }
    IN  CHOOSE r \in found : \A o \in found : r.id <= o.id

\* an initialisation that inserts its root without looking for it
get_cache_root_id_insert_first(table, abs) ==
    LET added == table \cup {[id |-> next_root_id(table), path |-> abs]}
    IN  [table |-> added, id |-> next_root_id(table)]

\* get_cache_root_id: the id of the row with the path; where there is none
\* the row is inserted and the lookup made again, which then finds it
get_cache_root_id(table, abs) ==
    IF \E r \in table : r.path = abs
    THEN [table |-> table, id |-> first_root(table, abs).id]
    ELSE LET added == table \cup {[id |-> next_root_id(table), path |-> abs]}
         IN  [table |-> added, id |-> first_root(added, abs).id]

\* SqliteCacheInterface::init from working directory dir; th lists the
\* interfaces built so far
SqliteInit(dir) ==
    /\ Len(th) < MaxInits
    /\ LET r == get_cache_root_id(cache_roots, get_cuboid_root_abs_path(dir))
       IN  /\ cache_roots' = r.table
           /\ th' = Append(th, [dir |-> dir, built |-> TRUE, cache_root_id |-> r.id])
    /\ UNCHANGED <<chan, rows, num_cuboids, now, remove_calls, logged, remove_failed>>

\* the insert fails: expect("Could not update database") panics
SqliteInitPanics(dir) ==
    /\ Len(th) < MaxInits
    /\ ~\E r \in cache_roots : r.path = get_cuboid_root_abs_path(dir)
    /\ th' = Append(th, [dir |-> dir, built |-> FALSE, cache_root_id |-> 0])
    /\ UNCHANGED cmVars

InitRoots ==
    /\ cache_roots \in {{}, {[id |-> 1, path |-> ForeignRoot]}}
    /\ chan = <<>> /\ rows = {} /\ num_cuboids = 0 /\ now = 0
    /\ remove_calls = <<>> /\ logged = <<>> /\ remove_failed = FALSE
    /\ DmIdle
    /\ FnIdle
    /\ ThIdle
    /\ UtIdle

NextRoots ==
    \/ \E dir \in Dirs : SqliteInit(dir) /\ UNCHANGED <<fnVars, dmVars, utVars>>
    \/ \E dir \in Dirs : SqliteInitPanics(dir) /\ UNCHANGED <<fnVars, dmVars, utVars>>

SpecRoots == InitRoots /\ [][NextRoots]_vars

\* the interfaces built so far
Built == { i \in DOMAIN th : th[i].built }

\* C38: initialising the metadata interface inserts a row for the active
\* root's absolute path only when the table has none and returns that row's
\* id; initialising again on the same store returns the same id, the table
\* keeps exactly one row for the path, and rows already there are never
\* changed or removed.
C38_InitIdempotent ==
    /\ [](\A i \in Built :
            LET abs == get_cuboid_root_abs_path(th[i].dir)
            IN  /\ Cardinality({ r \in cache_roots : r.path = abs }) = 1
                /\ [id |-> th[i].cache_root_id, path |-> abs] \in cache_roots
                /\ \A j \in Built :
                      get_cuboid_root_abs_path(th[j].dir) = abs =>
                         th[j].cache_root_id = th[i].cache_root_id)
    /\ [][/\ cache_roots \subseteq cache_roots'
          /\ \A r \in cache_roots' \ cache_roots :
                /\ cache_roots' = cache_roots \cup {r}
                /\ ~\E o \in cache_roots : o.path = r.path \/ o.id = r.id]_vars

\* C38 witness: beside another program's root, the same root was initialised
\* twice, the second time through a link, and a different root after it
C38_Witness ==
    /\ Len(th) = 3
    /\ Built = {1, 2, 3}
    /\ th[1].dir = "/srv/a" /\ th[2].dir = "/srv/link" /\ th[3].dir = "/srv/b"
    /\ th[1].cache_root_id = th[2].cache_root_id
    /\ [id |-> 1, path |-> ForeignRoot] \in cache_roots
    /\ Cardinality(cache_roots) = 3


(***************************************************************************)
(* put_data block by block, with the file system failing: the loop takes   *)
(* the entries of the decomposition in any order, and each of the calls    *)
(* create_dir_all, File::create and write_all of an iteration may fail.    *)
(***************************************************************************)

\* the file system calls of one iteration that may fail: create_dir_all and
\* the first File::create (new block only), the second File::create, write_all
PutFaults == {"none", "create_dir_all", "create", "create_again", "write_all"}

\* what put_data printed and returned; failed lists the calls that failed
NoOutput == [printed |-> << >>, failed |-> {}, returned |-> "nothing"]

\* what a failed write_all leaves of the bytes: nothing, or a leading part
partial_writes(bytes) == { << >>, SubSeq(bytes, 1, 1) }

\* put_data up to its loop
PutStart(t, origin, data) ==
    /\ Finished(req[t])
    /\ nreq < MaxReqs
    /\ nreq' = nreq + 1
    /\ LET cuboids == get_cuboids_and_indices(
                          origin, PutWindowStop(origin, data), cuboid_size)
       IN  req' = [req EXCEPT ![t] =
                     [IdleReq EXCEPT !.op = "put", !.status = "run",
                                     !.origin = origin, !.data = data,
                                     !.cuboids = cuboids,
                                     !.pending = DOMAIN cuboids]]
    /\ ret' = NoOutput
    /\ UNCHANGED <<files, prev, connected, track_usage, hist>>

\* one iteration of put_data's loop, on cuboid c, with the call `fault`
\* failing; put_data returns true after the last one
PutBlock(t, c, fault) ==
    /\ req[t].op = "put" /\ req[t].status = "run"
    /\ c \in req[t].pending
    /\ LET f == BlockFile(c)
           old == has_block(files, f)
           rest == req[t].pending \ {c}
           bytes == put_block(files, c, req[t].cuboids[c], req[t].origin, req[t].data)
           created == IF old THEN files ELSE write_file(files, f, << >>)
           failure == [ret EXCEPT !.failed = ret.failed \cup {[c |-> c, call |-> fault]}]
           next(out) == /\ req' = [req EXCEPT ![t].pending = rest,
                                              ![t].status = IF rest = {} THEN "done" ELSE "run"]
                        /\ ret' = [out EXCEPT !.returned = IF rest = {} THEN "true" ELSE "nothing"]
       IN  /\ (old => fault \notin {"create_dir_all", "create"})
           /\ CASE old /\ ~from_shape_vec(BlockShape, files[f]).ok ->
                     /\ fault = "none"
                     /\ req' = [req EXCEPT ![t] = Panicked(req[t])]
                     /\ UNCHANGED <<files, ret>>
                [] fault \in {"create_dir_all", "create"} ->
                     /\ req' = [req EXCEPT ![t] = Panicked(req[t])]
                     /\ ret' = failure
                     /\ UNCHANGED files
                [] fault = "create_again" ->
                     /\ req' = [req EXCEPT ![t] = Panicked(req[t])]
                     /\ ret' = failure
                     /\ files' = created
                [] fault = "write_all" ->
                     /\ \E left \in partial_writes(bytes) :
                           files' = write_file(files, f, left)
                     /\ next([failure EXCEPT !.printed = Append(ret.printed, c)])
                [] OTHER ->
                     /\ files' = write_file(files, f, bytes)
                     /\ next(ret)
    /\ UNCHANGED <<prev, connected, nreq, track_usage, hist>>

InitPut ==
    /\ files \in { CachedStore(cs) : cs \in SUBSET DataCuboids }
    /\ req = [t \in {1} |-> IdleReq]
    /\ prev = [t \in {1} |-> Summary(IdleReq)]
    /\ connected = TRUE
    /\ nreq = 0
    /\ track_usage = FALSE
    /\ hist = NoHist
    /\ args = << >>
    /\ ret = NoOutput
    /\ CmIdle
    /\ ThIdle
    /\ UtIdle

NextPut ==
    \/ \E w \in Windows, p \in 1 .. NumPatterns :
         PutStart(1, w[1], ClientBuffer(p, w[1], w[2]))
            /\ UNCHANGED <<args, cmVars, thVars, utVars>>
    \/ \E c \in DataCuboids, fault \in PutFaults :
         PutBlock(1, c, fault) /\ UNCHANGED <<args, cmVars, thVars, utVars>>

SpecPut == InitPut /\ [][NextPut]_vars

\* C39: a failure to create or to write the file of one block does not abort
\* put_data: the failure is logged, the call goes on to the remaining blocks
\* and, once through, has written each of them and returned its boolean.
C39_FailuresDoNotAbort ==
    \A t \in DOMAIN req :
       (req[t].op = "put" /\ ret.failed # {}) =>
          /\ req[t].status # "panic"
          /\ \A e \in ret.failed :
                \E i \in DOMAIN ret.printed : ret.printed[i] = e.c
          /\ req[t].status = "done" =>
                /\ ret.returned = "true"
                /\ \A c \in DOMAIN req[t].cuboids :
                      (\A e \in ret.failed : e.c # c) =>
                         has_block(files, BlockFile(c))

(***************************************************************************)
(* The end of the consumer's loop: `for key in rx` ends when the channel   *)
(* has no sender left and no key queued.  A channel's one sender sits in   *)
(* SENDER_MUTEX from run's assignment on and is dropped when another call  *)
(* of run assigns over it; the consumer thread may also panic.             *)
(***************************************************************************)

\* the keys sent (which key it is plays no part in how the loop ends)
DrainKeys == { KeyOf(1) }

\* the sender of consumer c's channel is still there
SenderOpen(c) == ut.SENDER_MUTEX = c

\* the consumer thread of call c panics: usage_manager_factory's expect,
\* SqliteCacheInterface::new's expects, or an expect on a failed query inside
\* log_request.  Its receiver is dropped with the keys still queued.
LoopPanics(c) ==
    /\ Running(c)
    /\ ut.calls[c].kind = "Sqlite"
    /\ ut' = [ut EXCEPT !.gone = ut.gone \cup {c}]
    /\ UNCHANGED <<cmVars, th>>

\* a step of consumer c's thread
ConsumerStep(c) == LoopRecv(c) \/ LoopLog(c) \/ LoopStrategy(c) \/ LoopEnds(c)

NextDrain ==
    \/ \E c \in Calls, kind \in { "Console", "Sqlite" } :
         RunEnter(c, kind) /\ UNCHANGED <<loopOthers, cmVars, thVars>>
    \/ \E c \in Calls : RunCheck(c) /\ UNCHANGED <<loopOthers, cmVars, thVars>>
    \/ \E c \in Calls : RunSet(c) /\ UNCHANGED <<loopOthers, cmVars, thVars>>
    \/ \E c \in Calls : RunSpawn(c) /\ UNCHANGED <<loopOthers, cmVars, thVars>>
    \/ \E key \in DrainKeys : LoopSend(key) /\ UNCHANGED loopOthers
    \/ \E c \in Calls : LoopRecv(c) /\ UNCHANGED loopOthers
    \/ \E c \in Calls : LoopLog(c) /\ UNCHANGED loopOthers
    \/ \E c \in Calls : LoopStrategy(c) /\ UNCHANGED loopOthers
    \/ \E c \in Calls : LoopEnds(c) /\ UNCHANGED loopOthers
    \/ \E c \in Calls : LoopPanics(c) /\ UNCHANGED loopOthers

\* a consumer thread that lives is scheduled
SpecDrain ==
    /\ InitLoop
    /\ [][NextDrain]_vars
    /\ \A c \in Calls : WF_vars(ConsumerStep(c) /\ UNCHANGED loopOthers)

\* C40: a consumer thread ends only after the sender of its channel is closed
\* and every key queued for it has been processed, never while the sender is
\* open; and once the sender is closed, the consumer does come to its end.
C40_ConsumerTermination ==
    /\ [][\A c \in Calls :
            (c \notin ut.gone /\ c \in ut'.gone) =>
               /\ ~SenderOpen(c)
               /\ th[c].pc = "recv" /\ th[c].queue = << >>]_vars
    /\ \A c \in Calls : (Running(c) /\ ~SenderOpen(c)) ~> (c \in ut.gone)

=============================================================================
